---------------------------- MODULE Spec2Model ----------------------------
(***************************************************************************)
(* ISO 9613-2 sound propagation (backend/calculations/iso9613.py and       *)
(* iso9613_optimized.py) and the TA Laerm compliance check.                *)
(*                                                                         *)
(* Numbers.  The code computes in binary floating point; the model         *)
(* computes in fixed point:                                                *)
(*   lengths and coordinates   whole centimetres   (1 m   = 100)           *)
(*   levels and attenuations   whole milli-dB      (1 dB  = 1000)          *)
(* except where the code itself holds a whole number (the TA Laerm limits  *)
(* are whole dB, as in LIMITS).  math.sqrt and math.log10 are computed to  *)
(* that precision by sqrt and log10 below.                                 *)
(***************************************************************************)
EXTENDS Integers, Sequences, FiniteSets, TLC

VARIABLES
    spl,              \* check_compliance argument: level in milli-dB
    zone_type,        \* check_compliance argument: the zone string
    verdict,          \* is_night -> dict returned by check_compliance(spl, zone_type, is_night)
    source,           \* NoiseSource handed to calculate / calculate_grid
    receiver,         \* Receiver handed to calculate
    obstacles,        \* list of Obstacle handed to calculate
    octave_bands,     \* the octave_bands flag handed to calculate
    iso_result,       \* AttenuationResult returned by ISO9613Calculator.calculate
    fast_result,      \* AttenuationResult returned by FastISO9613Calculator.calculate
    barrier_result,   \* value returned by ISO9613Calculator._barrier_attenuation
    NUMBA_AVAILABLE,  \* module flag of iso9613_optimized, fixed at import
    bbox,             \* calculate_grid argument (minx, miny, maxx, maxy)
    grid_size,        \* calculate_grid argument
    receiver_height,  \* calculate_grid argument
    iso_grid,         \* list returned by ISO9613Calculator.calculate_grid
    fast_grid,        \* list returned by FastISO9613Calculator.calculate_grid
    distance_in,      \* distance handed to _geometric_divergence / _ground_effect
    a_div_results,    \* function -> value returned for distance
    a_gr_results,     \* function -> ground type -> outcome for source, receiver, distance
    points,           \* (n, 3) array handed to calculate_batch / calculate_route
    ground_factor_in, \* ground_factor handed to the FastISO9613Calculator methods
    batch_result,     \* array returned by FastISO9613Calculator.calculate_batch
    route_result,     \* outcome of FastISO9613Calculator.calculate_route
    grid_fast_result, \* outcome of FastISO9613Calculator.calculate_grid_fast
    spls,             \* the list spls of the levels of a result set, as listed
    api_stats,        \* the statistics the /calculate/grid endpoint returns for spls
    fast_stats,       \* outcome of the stats of calculate_grid_fast over spls
    kernel,           \* the JIT kernel running: "grid", "batch" or "route"
    iter_pc,          \* prange iteration -> the column it is at and its next step
    iter_spl,         \* prange iteration -> its local spl
    result_array,     \* the array the kernel fills (result, spl_values), zeros at first
    kernel_out,       \* what the kernel returned, None while it runs
    spl_values_in,    \* the per-point levels spl_values of a route
    route_summary,    \* outcome of the energetic mean, the maximum and the dict built from them
    grid_request,     \* body of a POST /calculate/grid request
    grid_response,    \* what the endpoint answered, None before
    core_calls,       \* the calls of calculator.calculate_grid made, in order
    OWSLIB_AVAILABLE, \* whether owslib could be imported
    REQUESTS_AVAILABLE,\* whether requests could be imported
    audit_records,    \* NRWDataLoader.audit_records
    audit_log,        \* the lines of the audit log file
    alkis_result,     \* what the last load_alkis_data returned, None before
    load_calls,       \* number of calls of load_alkis_data made
    active_connections,\* ConnectionManager.active_connections
    subscriptions,    \* ConnectionManager.subscriptions, droneId -> set of websockets
    message_queue,    \* ConnectionManager.message_queue
    peer,             \* per websocket, whether the client is still there (open, gone)
    inbox,            \* per websocket, the texts the client sent that receive_text has not returned yet
    handler,          \* per websocket, where websocket_drone_position stands and its locals
    broadcaster,      \* where _run_broadcaster stands and the locals of broadcast
    delivered,        \* per websocket, the drone-position messages send_text delivered
    audience,         \* per drone-position message, active_connections when it was received
    disconnect_calls, \* the websockets disconnect was called for in the last step
    _cache,           \* GeodataService._cache, key -> (time stored, value)
    _nrw_loader,      \* GeodataService._nrw_loader: None, or a loader
    now,              \* datetime.now(), in seconds since the service was made
    clock_ticks,      \* how often the clock has advanced
    loader_invocations,\* calls of load_alkis_data and load_noise_data made
    service_calls,    \* the calls of get_parcels and get_ambient_noise made, by key
    service_result,   \* what the last call returned
    calc_weather,     \* ISO9613Calculator.weather
    class_tables,     \* the class attributes ATMO_ABSORPTION and LIMITS
    call_log,         \* the calls made and what each returned, in order
    loop_bbox,        \* the bbox calculate_grid was called with, floats of metres
    loop_step,        \* grid_size, a float
    loop_pc,          \* where calculate_grid stands: outer, inner, body, done
    loop_x,           \* x
    loop_y,           \* y
    visits            \* per point appended to results, how often, counted up to MaxVisits

vars == <<spl, zone_type, verdict, source, receiver, obstacles, octave_bands,
          iso_result, fast_result, barrier_result, NUMBA_AVAILABLE, bbox, grid_size,
          receiver_height, iso_grid, fast_grid, distance_in, a_div_results,
          a_gr_results, points, ground_factor_in, batch_result, route_result,
          grid_fast_result,
          spls, api_stats, fast_stats,
          kernel, iter_pc, iter_spl, result_array, kernel_out,
          spl_values_in, route_summary,
          grid_request, grid_response, core_calls,
          OWSLIB_AVAILABLE, REQUESTS_AVAILABLE, audit_records, audit_log, alkis_result, load_calls,
          active_connections, subscriptions, message_queue, peer, inbox, handler, broadcaster, delivered, audience, disconnect_calls,
          _cache, _nrw_loader, now, clock_ticks, loader_invocations, service_calls, service_result,
          calc_weather, class_tables, call_log,
          loop_bbox, loop_step, loop_pc, loop_x, loop_y, visits>>

compliance_vars == <<spl, zone_type, verdict>>
calc_vars == <<source, receiver, obstacles, octave_bands, iso_result, fast_result,
               barrier_result>>
grid_vars == <<bbox, grid_size, receiver_height, iso_grid, fast_grid>>
term_vars == <<distance_in, a_div_results, a_gr_results>>
batch_vars == <<points, ground_factor_in, batch_result, route_result, grid_fast_result>>
stats_vars == <<spls, api_stats, fast_stats>>
par_vars == <<kernel, iter_pc, iter_spl, result_array, kernel_out>>
level_vars == <<spl_values_in, route_summary>>
api_vars == <<grid_request, grid_response, core_calls>>
loader_vars == <<OWSLIB_AVAILABLE, REQUESTS_AVAILABLE, audit_records, audit_log, alkis_result, load_calls>>
ws_vars == <<active_connections, subscriptions, message_queue, peer, inbox, handler, broadcaster, delivered, audience, disconnect_calls>>
cache_vars == <<_cache, _nrw_loader, now, clock_ticks, loader_invocations, service_calls, service_result>>
frame_vars == <<calc_weather, class_tables, call_log>>
loop_vars == <<loop_bbox, loop_step, loop_pc, loop_x, loop_y, visits>>
aux_vars == <<term_vars, batch_vars, stats_vars, par_vars, level_vars, api_vars, loader_vars, ws_vars, cache_vars, frame_vars, loop_vars>>

\* Python's None
None == [py |-> "None"]

\* the outcome of a call that may raise
Return(v) == [value |-> v]
Raise(e) == [raised |-> e]
Raised(r) == "raised" \in DOMAIN r

(***************************************************************************)
(* Arithmetic                                                              *)
(***************************************************************************)

max(a, b) == IF a >= b THEN a ELSE b
min(a, b) == IF a <= b THEN a ELSE b

RECURSIVE SqrtSearch(_, _, _)
SqrtSearch(n, lo, hi) ==
    IF lo >= hi THEN lo
    ELSE LET mid == (lo + hi + 1) \div 2
         IN  IF mid * mid <= n THEN SqrtSearch(n, mid, hi)
                               ELSE SqrtSearch(n, lo, mid - 1)

\* math.sqrt on a non-negative argument, rounded down to the unit
sqrt(n) == SqrtSearch(n, 0, 46340)

RECURSIVE FloorLog2(_)
FloorLog2(n) == IF n < 2 THEN 0 ELSE 1 + FloorLog2(n \div 2)

RECURSIVE Pow2(_)
Pow2(k) == IF k = 0 THEN 1 ELSE 2 * Pow2(k - 1)

\* the fractional bits of log2(y / 2^14), y in [2^14, 2^15), by repeated squaring
RECURSIVE Log2Frac(_, _)
Log2Frac(y, bit) ==
    IF bit = 0 THEN 0
    ELSE LET sq == (y * y) \div 16384
         IN  IF sq >= 32768 THEN bit + Log2Frac(sq \div 2, bit \div 2)
                            ELSE Log2Frac(sq, bit \div 2)

\* log2(n) in units of 2^-12
Log2Fix(n) ==
    LET k == FloorLog2(n)
        y == IF k <= 14 THEN n * Pow2(14 - k) ELSE n \div Pow2(k - 14)
    IN  k * 4096 + Log2Frac(y, 2048)

\* math.log10 of x > 0, where x is held in fixed point with `one` standing
\* for 1; the result in thousandths.  log10 of exactly 1 is exactly 0.
log10(x, one) == ((Log2Fix(x) - Log2Fix(one)) * 30103) \div 409600

RECURSIVE Pow10(_)
Pow10(k) == IF k = 0 THEN 1 ELSE 10 * Pow10(k - 1)

\* round(v, 1): v to the nearest multiple of `tenth` (100 for a milli-dB value,
\* 10 for a length in centimetres), an exact tie going to the even multiple
py_round(v, tenth) ==
    LET q == v \div tenth
        r == v % tenth
    IN  IF 2 * r < tenth THEN q * tenth
        ELSE IF 2 * r > tenth THEN (q + 1) * tenth
        ELSE IF q % 2 = 0 THEN q * tenth ELSE (q + 1) * tenth

round1(v) == py_round(v, 100)

RECURSIVE SumOver(_, _)
SumOver(S, f) ==
    IF S = {} THEN 0
    ELSE LET e == CHOOSE e \in S : TRUE
         IN  f[e] + SumOver(S \ {e}, f)

\* dict.get(key, default)
dict_get(d, key, default) == IF key \in DOMAIN d THEN d[key] ELSE default

(***************************************************************************)
(* TA Laerm compliance check                                               *)
(***************************************************************************)

\* a mutated table: the day and night values of gewerbegebiet exchanged
LIMITS_gewerbe_swapped ==
    [industriegebiet        |-> [tag |-> 70, nacht |-> 70],
     gewerbegebiet          |-> [tag |-> 50, nacht |-> 65],
     kerngebiet             |-> [tag |-> 60, nacht |-> 45],
     mischgebiet            |-> [tag |-> 60, nacht |-> 45],
     allgemeines_wohngebiet |-> [tag |-> 55, nacht |-> 40],
     reines_wohngebiet      |-> [tag |-> 50, nacht |-> 35],
     kurgebiet              |-> [tag |-> 45, nacht |-> 35],
     krankenhaus            |-> [tag |-> 45, nacht |-> 35]]

\* a mutated table: kurgebiet given a night value of 40
LIMITS_kur_night_40 ==
    [industriegebiet        |-> [tag |-> 70, nacht |-> 70],
     gewerbegebiet          |-> [tag |-> 65, nacht |-> 50],
     kerngebiet             |-> [tag |-> 60, nacht |-> 45],
     mischgebiet            |-> [tag |-> 60, nacht |-> 45],
     allgemeines_wohngebiet |-> [tag |-> 55, nacht |-> 40],
     reines_wohngebiet      |-> [tag |-> 50, nacht |-> 35],
     kurgebiet              |-> [tag |-> 45, nacht |-> 40],
     krankenhaus            |-> [tag |-> 45, nacht |-> 35]]

\* TALaermChecker.LIMITS, whole dB(A)
LIMITS ==
    [industriegebiet        |-> [tag |-> 70, nacht |-> 70],
     gewerbegebiet          |-> [tag |-> 65, nacht |-> 50],
     kerngebiet             |-> [tag |-> 60, nacht |-> 45],
     mischgebiet            |-> [tag |-> 60, nacht |-> 45],
     allgemeines_wohngebiet |-> [tag |-> 55, nacht |-> 40],
     reines_wohngebiet      |-> [tag |-> 50, nacht |-> 35],
     kurgebiet              |-> [tag |-> 45, nacht |-> 35],
     krankenhaus            |-> [tag |-> 45, nacht |-> 35]]

\* str.lower() on the zone strings handed in: the strings below hold capital
\* letters, every other string handed in is lower case already
lower(s) ==
    CASE s = "Mischgebiet"            -> "mischgebiet"
      [] s = "INDUSTRIEGEBIET"        -> "industriegebiet"
      [] s = "Reines_Wohngebiet"      -> "reines_wohngebiet"
      [] s = "Unknown_Zone"           -> "unknown_zone"
      [] OTHER                        -> s

\* a mutated fallback: an unknown zone is given the commercial-zone limits
default_limits_gewerbe == LIMITS["gewerbegebiet"]

\* the default of LIMITS.get in check_compliance
default_limits == LIMITS["mischgebiet"]

\* a faulty variant: the limit itself is no longer compliant
check_compliance_strict(level, zone, is_night) ==
    LET limits == dict_get(LIMITS, lower(zone), default_limits)
        limit == IF is_night THEN limits.nacht ELSE limits.tag
        margin == limit * 1000 - level
        compliant == margin > 0
    IN  [compliant |-> compliant, measured_spl |-> round1(level), limit |-> limit,
         margin_db |-> round1(margin), zone_type |-> zone,
         time_period |-> IF is_night THEN "nacht" ELSE "tag",
         status |-> IF compliant THEN "KONFORM" ELSE "ÜBERSCHREITUNG"]

\* a faulty variant: the label is taken from the rounded margin
check_compliance_label_rounded(level, zone, is_night) ==
    LET limits == dict_get(LIMITS, lower(zone), default_limits)
        limit == IF is_night THEN limits.nacht ELSE limits.tag
        margin == limit * 1000 - level
        compliant == margin >= 0
    IN  [compliant |-> compliant, measured_spl |-> round1(level), limit |-> limit,
         margin_db |-> round1(margin), zone_type |-> zone,
         time_period |-> IF is_night THEN "nacht" ELSE "tag",
         status |-> IF round1(margin) >= 0 THEN "KONFORM" ELSE "ÜBERSCHREITUNG"]

\* TALaermChecker.check_compliance(spl, zone_type, is_night)
check_compliance(level, zone, is_night) ==
    LET limits == dict_get(LIMITS, lower(zone), default_limits)
        limit == IF is_night THEN limits.nacht ELSE limits.tag
        margin == limit * 1000 - level
        compliant == margin >= 0
    IN  [compliant |-> compliant, measured_spl |-> round1(level), limit |-> limit,
         margin_db |-> round1(margin), zone_type |-> zone,
         time_period |-> IF is_night THEN "nacht" ELSE "tag",
         status |-> IF compliant THEN "KONFORM" ELSE "ÜBERSCHREITUNG"]

(***************************************************************************)
(* ISO9613Calculator (iso9613.py)                                          *)
(***************************************************************************)

\* GroundType -> ground factor G in tenths, as _ground_effect picks it
ground_factor_of(ground_type) ==
    IF ground_type = "mixed" THEN 5
    ELSE IF ground_type = "hard" THEN 0 ELSE 10

\* ISO9613Calculator.ATMO_ABSORPTION, Hz -> tenths of a dB per km
ATMO_ABSORPTION ==
    (63 :> 1) @@ (125 :> 4) @@ (250 :> 10) @@ (500 :> 19) @@
    (1000 :> 37) @@ (2000 :> 97) @@ (4000 :> 328) @@ (8000 :> 1170)

\* ISO9613Calculator._calculate_distance: centimetres
_calculate_distance(src, rcv) ==
    LET dx == rcv.x - src.x
        dy == rcv.y - src.y
        dz == rcv.z - src.z
    IN  sqrt(dx * dx + dy * dy + dz * dz)

\* a faulty variant: the minimum distance is 0.1 m
_geometric_divergence_low_clamp(distance) ==
    LET d == IF distance < 10 THEN 10 ELSE distance
    IN  20 * log10(d, 100) + 11000

\* ISO9613Calculator._geometric_divergence: milli-dB
_geometric_divergence(distance) ==
    LET d == IF distance < 100 THEN 100 ELSE distance
    IN  20 * log10(d, 100) + 11000

\* a spectrum is truthy when it is neither None nor the empty dict
truthy(spectrum) == ~spectrum.is_none /\ DOMAIN spectrum.items # {}

\* ISO9613Calculator._atmospheric_absorption: milli-dB.  A band level L enters
\* as 10 ** (L / 10); the spectra handed in hold whole multiples of 10 dB.
_atmospheric_absorption(distance, octave, src) ==
    IF octave /\ truthy(src.frequency_spectrum)
    THEN LET items == src.frequency_spectrum.items
             term == [freq \in DOMAIN items |->
                         dict_get(ATMO_ABSORPTION, freq, 37) * distance
                             * Pow10(items[freq] \div 10)]
             total_absorption == SumOver(DOMAIN items, term)
         IN  total_absorption \div (1000 * Cardinality(DOMAIN items))
    ELSE LET alpha_a == 20
         IN  (alpha_a * distance) \div 1000

\* a faulty variant: the result is limited from above only
_ground_effect_no_floor(src, rcv, distance) ==
    LET hs == src.z
        hr == rcv.z
        radicand == distance * distance - (hs - hr) * (hs - hr)
    IN  IF radicand < 0 THEN Raise("ValueError")
        ELSE LET dp == sqrt(radicand)
                 g == ground_factor_of(rcv.ground_type)
                 ratio == ((hs + hr) * 1000) \div dp
                 slope == 170 + 300000 \div dp
                 a_gr == 4800 - (ratio * slope) \div 10
             IN  IF dp < 100 THEN Return(0)
                 ELSE Return((min(a_gr, 10000) * g) \div 10)

\* ISO9613Calculator._ground_effect: milli-dB, or the ValueError math.sqrt
\* raises on a negative argument
_ground_effect(src, rcv, distance) ==
    LET hs == src.z
        hr == rcv.z
        radicand == distance * distance - (hs - hr) * (hs - hr)
    IN  IF radicand < 0 THEN Raise("ValueError")
        ELSE LET dp == sqrt(radicand)
                 g == ground_factor_of(rcv.ground_type)
                 \* 2 * hm / dp in thousandths, 17 + 300 / dp in tenths
                 ratio == ((hs + hr) * 1000) \div dp
                 slope == 170 + 300000 \div dp
                 a_gr == 4800 - (ratio * slope) \div 10
             IN  IF dp < 100 THEN Return(0)
                 ELSE IF dp > 0 THEN Return((max(0, min(a_gr, 10000)) * g) \div 10)
                 ELSE Return(0)

\* the Maekawa attenuation of one obstacle, and whether it enters the maximum
_barrier_dz(src, rcv, obstacle) ==
    LET d_direct == _calculate_distance(src, rcv)
        d_to_obstacle ==
            sqrt((obstacle.x - src.x) * (obstacle.x - src.x)
                 + (obstacle.y - src.y) * (obstacle.y - src.y)
                 + (obstacle.height - src.z) * (obstacle.height - src.z))
        d_from_obstacle ==
            sqrt((rcv.x - obstacle.x) * (rcv.x - obstacle.x)
                 + (rcv.y - obstacle.y) * (rcv.y - obstacle.y)
                 + (rcv.z - obstacle.height) * (rcv.z - obstacle.height))
        delta == d_to_obstacle + d_from_obstacle - d_direct
        wavelength == 34
        \* the Fresnel number in thousandths
        n == (2 * delta * 1000) \div wavelength
        dz == 10 * log10(3000 + 20 * n, 1000)
    IN  [delta |-> delta,
         counts |-> delta > 0 /\ n > 0,
         dz |-> IF delta > 0 /\ n > 0 THEN min(dz, 25000) ELSE 0]

\* a faulty variant: the attenuations of the obstacles are added up
RECURSIVE _barrier_attenuation_summed(_, _, _)
_barrier_attenuation_summed(src, rcv, obs) ==
    IF obs = <<>> THEN 0
    ELSE LET b == _barrier_dz(src, rcv, Head(obs))
         IN  (IF b.counts THEN b.dz ELSE 0)
             + _barrier_attenuation_summed(src, rcv, Tail(obs))

\* the loop of _barrier_attenuation from max_attenuation on
RECURSIVE barrier_loop(_, _, _, _)
barrier_loop(src, rcv, obs, max_attenuation) ==
    IF obs = <<>> THEN max_attenuation
    ELSE LET b == _barrier_dz(src, rcv, Head(obs))
         IN  barrier_loop(src, rcv, Tail(obs),
                          IF b.counts THEN max(max_attenuation, b.dz)
                                      ELSE max_attenuation)

\* ISO9613Calculator._barrier_attenuation: milli-dB
_barrier_attenuation(src, rcv, obs) ==
    IF obs = <<>> THEN 0 ELSE barrier_loop(src, rcv, obs, 0)

\* the advisory notes of calculate
NOTE_NEAR_FIELD == "Warnung: Sehr kurze Distanz, Nahfeld-Effekte möglich"
NOTE_HIGH_SOURCE == "Hinweis: Große Quellhöhe, vereinfachte Bodeneffekt-Berechnung"

\* a faulty variant: the barrier term is left out of the total
calculate_total_without_barrier(src, rcv, obs, octave) ==
    LET d == _calculate_distance(src, rcv)
        a_div == _geometric_divergence(d)
        a_atm == _atmospheric_absorption(d, octave, src)
        gr == _ground_effect(src, rcv, d)
        a_bar == _barrier_attenuation(src, rcv, obs)
        a_misc == 0
    IN  IF Raised(gr) THEN gr
        ELSE LET a_gr == gr.value
                 total_a == a_div + a_atm + a_gr + a_misc
                 lat == src.lw + src.directivity - total_a
             IN  [source_lw |-> src.lw, distance_m |-> d, a_div |-> a_div,
                  a_atm |-> a_atm, a_gr |-> a_gr, a_bar |-> a_bar,
                  a_misc |-> a_misc, total_attenuation |-> total_a,
                  sound_pressure_level |-> lat,
                  calculation_method |-> "ISO 9613-2:1996",
                  notes |-> (IF d < 100 THEN <<NOTE_NEAR_FIELD>> ELSE <<>>)
                            \o (IF src.z > 10000 THEN <<NOTE_HIGH_SOURCE>> ELSE <<>>)]

\* a faulty variant: the directivity correction Dc is left out of the level
calculate_without_directivity(src, rcv, obs, octave) ==
    LET d == _calculate_distance(src, rcv)
        a_div == _geometric_divergence(d)
        a_atm == _atmospheric_absorption(d, octave, src)
        gr == _ground_effect(src, rcv, d)
        a_bar == _barrier_attenuation(src, rcv, obs)
        a_misc == 0
    IN  IF Raised(gr) THEN gr
        ELSE LET a_gr == gr.value
                 total_a == a_div + a_atm + a_gr + a_bar + a_misc
                 lat == src.lw - total_a
             IN  [source_lw |-> src.lw, distance_m |-> d, a_div |-> a_div,
                  a_atm |-> a_atm, a_gr |-> a_gr, a_bar |-> a_bar,
                  a_misc |-> a_misc, total_attenuation |-> total_a,
                  sound_pressure_level |-> lat,
                  calculation_method |-> "ISO 9613-2:1996",
                  notes |-> (IF d < 100 THEN <<NOTE_NEAR_FIELD>> ELSE <<>>)
                            \o (IF src.z > 10000 THEN <<NOTE_HIGH_SOURCE>> ELSE <<>>)]

\* a faulty variant: the notes are appended at the thresholds too (<=, >=)
calculate_notes_inclusive(src, rcv, obs, octave) ==
    LET d == _calculate_distance(src, rcv)
        a_div == _geometric_divergence(d)
        a_atm == _atmospheric_absorption(d, octave, src)
        gr == _ground_effect(src, rcv, d)
        a_bar == _barrier_attenuation(src, rcv, obs)
        a_misc == 0
    IN  IF Raised(gr) THEN gr
        ELSE LET a_gr == gr.value
                 total_a == a_div + a_atm + a_gr + a_bar + a_misc
                 lat == src.lw + src.directivity - total_a
             IN  [source_lw |-> src.lw, distance_m |-> d, a_div |-> a_div,
                  a_atm |-> a_atm, a_gr |-> a_gr, a_bar |-> a_bar,
                  a_misc |-> a_misc, total_attenuation |-> total_a,
                  sound_pressure_level |-> lat,
                  calculation_method |-> "ISO 9613-2:1996",
                  notes |-> (IF d <= 100 THEN <<NOTE_NEAR_FIELD>> ELSE <<>>)
                            \o (IF src.z >= 10000 THEN <<NOTE_HIGH_SOURCE>> ELSE <<>>)]

\* ISO9613Calculator.calculate(source, receiver, obstacles, octave_bands):
\* the AttenuationResult, or the exception a component raised
calculate(src, rcv, obs, octave) ==
    LET d == _calculate_distance(src, rcv)
        a_div == _geometric_divergence(d)
        a_atm == _atmospheric_absorption(d, octave, src)
        gr == _ground_effect(src, rcv, d)
        a_bar == _barrier_attenuation(src, rcv, obs)
        a_misc == 0
    IN  IF Raised(gr) THEN gr
        ELSE LET a_gr == gr.value
                 total_a == a_div + a_atm + a_gr + a_bar + a_misc
                 lat == src.lw + src.directivity - total_a
             IN  [source_lw |-> src.lw, distance_m |-> d, a_div |-> a_div,
                  a_atm |-> a_atm, a_gr |-> a_gr, a_bar |-> a_bar,
                  a_misc |-> a_misc, total_attenuation |-> total_a,
                  sound_pressure_level |-> lat,
                  calculation_method |-> "ISO 9613-2:1996",
                  notes |-> (IF d < 100 THEN <<NOTE_NEAR_FIELD>> ELSE <<>>)
                            \o (IF src.z > 10000 THEN <<NOTE_HIGH_SOURCE>> ELSE <<>>)]

(***************************************************************************)
(* FastISO9613Calculator (iso9613_optimized.py)                            *)
(***************************************************************************)

\* _distance_3d: centimetres
_distance_3d(x1, y1, z1, x2, y2, z2) ==
    LET dx == x2 - x1
        dy == y2 - y1
        dz == z2 - z1
    IN  sqrt(dx * dx + dy * dy + dz * dz)

\* _geometric_divergence_jit: milli-dB
_geometric_divergence_jit(distance) ==
    LET d == max(distance, 100)
    IN  20 * log10(d, 100) + 11000

\* _atmospheric_absorption_jit: milli-dB, alpha_a in tenths of a dB per km
_atmospheric_absorption_jit(distance, alpha_a) == (alpha_a * distance) \div 1000

\* _ground_effect_jit: milli-dB, ground_factor in tenths
_ground_effect_jit(source_z, receiver_z, distance, ground_factor) ==
    LET hs == source_z
        hr == receiver_z
        diff_sq == distance * distance - (hs - hr) * (hs - hr)
    IN  IF diff_sq < 0 THEN 0
        ELSE LET dp == sqrt(diff_sq)
                 ratio == ((hs + hr) * 1000) \div dp
                 slope == 170 + 300000 \div dp
                 a_gr == 4800 - (ratio * slope) \div 10
             IN  IF dp < 100 THEN 0
                 ELSE (max(0, min(a_gr, 10000)) * ground_factor) \div 10

\* _calculate_spl_single: (sound_pressure_level, total_attenuation)
_calculate_spl_single(source_x, source_y, source_z, source_lw, source_dc, receiver_x, receiver_y, receiver_z, ground_factor, alpha_a) ==
    LET d == _distance_3d(source_x, source_y, source_z,
                          receiver_x, receiver_y, receiver_z)
        a_div == _geometric_divergence_jit(d)
        a_atm == _atmospheric_absorption_jit(d, alpha_a)
        a_gr == _ground_effect_jit(source_z, receiver_z, d, ground_factor)
        a_bar == 0
        a_misc == 0
        total_a == a_div + a_atm + a_gr + a_bar + a_misc
    IN  [spl |-> source_lw + source_dc - total_a, total_a |-> total_a]

\* FastISO9613Calculator._alpha_a, tenths of a dB per km
_alpha_a == 20

\* the ground-factor table of FastISO9613Calculator.calculate, in tenths
fast_ground_factor(ground_type) ==
    dict_get([hard |-> 0, soft |-> 10, mixed |-> 5], ground_type, 5)

\* FastISO9613Calculator.calculate(source, receiver, obstacles, octave_bands)
fast_calculate(src, rcv, obs, octave) ==
    LET r == _calculate_spl_single(src.x, src.y, src.z, src.lw, src.directivity,
                                   rcv.x, rcv.y, rcv.z,
                                   fast_ground_factor(rcv.ground_type), _alpha_a)
        d == _distance_3d(src.x, src.y, src.z, rcv.x, rcv.y, rcv.z)
        a_div == _geometric_divergence_jit(d)
        a_atm == _atmospheric_absorption_jit(d, _alpha_a)
        a_gr == r.total_a - a_div - a_atm
    IN  [source_lw |-> src.lw, distance_m |-> d, a_div |-> a_div, a_atm |-> a_atm,
         a_gr |-> a_gr, a_bar |-> 0, a_misc |-> 0, total_attenuation |-> r.total_a,
         sound_pressure_level |-> r.spl,
         calculation_method |-> "ISO 9613-2:1996 (NumPy/Numba optimized)",
         notes |-> <<>>]

(***************************************************************************)
(* Grids                                                                   *)
(***************************************************************************)

\* Receiver(x=x, y=y, z=receiver_height): ground_type defaults to MIXED
grid_receiver(x, y, height) == [x |-> x, y |-> y, z |-> height, ground_type |-> "mixed"]

\* one pass of the inner loop body of ISO9613Calculator.calculate_grid
iso_grid_point(src, x, y, height) ==
    LET result == calculate(src, grid_receiver(x, y, height), <<>>, FALSE)
    IN  IF Raised(result) THEN result
        ELSE [x |-> x, y |-> y, z |-> height,
              spl_dba |-> round1(result.sound_pressure_level),
              distance_m |-> py_round(result.distance_m, 10)]

\* a faulty variant: the inner loop stops before the boundary (y < maxy)
RECURSIVE iso_grid_inner_exclusive(_, _, _, _, _, _)
iso_grid_inner_exclusive(src, x, y, maxy, step, height) ==
    IF y < maxy
    THEN <<iso_grid_point(src, x, y, height)>>
         \o iso_grid_inner_exclusive(src, x, y + step, maxy, step, height)
    ELSE <<>>

\* the inner loop of ISO9613Calculator.calculate_grid: while y <= maxy
RECURSIVE iso_grid_inner(_, _, _, _, _, _)
iso_grid_inner(src, x, y, maxy, step, height) ==
    IF y <= maxy
    THEN <<iso_grid_point(src, x, y, height)>>
         \o iso_grid_inner(src, x, y + step, maxy, step, height)
    ELSE <<>>

\* the outer loop of ISO9613Calculator.calculate_grid: while x <= maxx
RECURSIVE iso_grid_outer(_, _, _, _, _, _, _)
iso_grid_outer(src, x, miny, maxx, maxy, step, height) ==
    IF x <= maxx
    THEN iso_grid_inner(src, x, miny, maxy, step, height)
         \o iso_grid_outer(src, x + step, miny, maxx, maxy, step, height)
    ELSE <<>>

\* ISO9613Calculator.calculate_grid(source, bbox, grid_size, receiver_height),
\* grid_size > 0: the list returned, or the exception of the first failing point
iso_calculate_grid(src, box, step, height) ==
    LET results == iso_grid_outer(src, box.minx, box.miny, box.maxx, box.maxy, step, height)
    IN  IF \E i \in 1..Len(results) : Raised(results[i])
        THEN Raise("ValueError")
        ELSE Return(results)

\* np.arange(start, stop, step), step > 0: ceil((stop - start) / step) values
np_arange(start, stop, step) ==
    LET n == (stop - start + step - 1) \div step
    IN  [i \in 1..max(n, 0) |-> start + (i - 1) * step]

\* one element of _calculate_grid_parallel's result
grid_parallel_point(sx, sy, sz, source_lw, source_dc, rx, ry, receiver_z, ground_factor, alpha_a) ==
    _calculate_spl_single(sx, sy, sz, source_lw, source_dc, rx, ry, receiver_z, ground_factor, alpha_a).spl

\* one element of _calculate_grid_vectorized's result
grid_vectorized_point(sx, sy, sz, source_lw, rx, ry, receiver_z, ground_factor, alpha_a) ==
    LET dx == rx - sx
        dy == ry - sy
        dz == receiver_z - sz
        distance == max(sqrt(dx * dx + dy * dy + dz * dz), 100)
        a_div == 20 * log10(distance, 100) + 11000
        a_atm == (alpha_a * distance) \div 1000
        diff_sq == max(distance * distance - (sz - receiver_z) * (sz - receiver_z), 0)
        dp == max(sqrt(diff_sq), 100)
        ratio == ((sz + receiver_z) * 1000) \div dp
        slope == 170 + 300000 \div dp
        a_gr == (max(0, min(4800 - (ratio * slope) \div 10, 10000)) * ground_factor) \div 10
        total_a == a_div + a_atm + a_gr
    IN  source_lw - total_a

\* the matrix spl_matrix[i, j] of calculate_grid_fast, i over grid_y, j over grid_x
spl_matrix_of(sx, sy, sz, source_lw, source_dc, grid_x, grid_y, receiver_z, ground_factor, numba) ==
    [i \in 1..Len(grid_y) |-> [j \in 1..Len(grid_x) |->
        IF numba
        THEN grid_parallel_point(sx, sy, sz, source_lw, source_dc, grid_x[j],
                                 grid_y[i], receiver_z, ground_factor, _alpha_a)
        ELSE grid_vectorized_point(sx, sy, sz, source_lw, grid_x[j], grid_y[i],
                                   receiver_z, ground_factor, _alpha_a)]]

\* the elements of a matrix in row order
RECURSIVE flatten(_)
flatten(rows) == IF rows = <<>> THEN <<>> ELSE Head(rows) \o flatten(Tail(rows))

RECURSIVE seq_sum(_)
seq_sum(q) == IF q = <<>> THEN 0 ELSE Head(q) + seq_sum(Tail(q))

seq_min(q) == CHOOSE v \in {q[i] : i \in 1..Len(q)} : \A i \in 1..Len(q) : v <= q[i]
seq_max(q) == CHOOSE v \in {q[i] : i \in 1..Len(q)} : \A i \in 1..Len(q) : v >= q[i]

\* FastISO9613Calculator.calculate_grid_fast: the dict returned, or the
\* ValueError np.min raises on an empty matrix
calculate_grid_fast(sx, sy, sz, source_lw, box, step, height, source_dc, ground_factor, numba) ==
    LET grid_x == np_arange(box.minx, box.maxx + step, step)
        grid_y == np_arange(box.miny, box.maxy + step, step)
        spl_matrix == spl_matrix_of(sx, sy, sz, source_lw, source_dc, grid_x, grid_y,
                                    height, ground_factor, numba)
        grid_data == flatten([i \in 1..Len(grid_y) |-> [j \in 1..Len(grid_x) |->
                         [x |-> grid_x[j], y |-> grid_y[i],
                          spl |-> round1(spl_matrix[i][j])]]])
        values == flatten(spl_matrix)
    IN  IF values = <<>> THEN Raise("ValueError")
        ELSE Return([spl_matrix |-> spl_matrix, grid_x |-> grid_x, grid_y |-> grid_y,
                     grid_data |-> grid_data,
                     stats |-> [min_spl |-> round1(seq_min(values)),
                                max_spl |-> round1(seq_max(values)),
                                mean_spl |-> round1(seq_sum(values) \div Len(values)),
                                grid_points |-> Len(grid_x) * Len(grid_y)]])

\* FastISO9613Calculator.calculate_grid(source, bbox, grid_size, receiver_height)
fast_calculate_grid(src, box, step, height, numba) ==
    LET result == calculate_grid_fast(src.x, src.y, src.z, src.lw, box, step, height,
                                      src.directivity, 5, numba)
    IN  IF Raised(result) THEN result
        ELSE LET rows == result.value.grid_data
             IN  Return([k \in 1..Len(rows) |->
                     [x |-> rows[k].x, y |-> rows[k].y, z |-> height,
                      spl_dba |-> rows[k].spl,
                      distance_m |-> py_round(_distance_3d(src.x, src.y, src.z, rows[k].x,
                                                           rows[k].y, height), 10)]])

\* 2 ** (2 ** -j) for j = 1..12, scaled by 2^14
EXP2_TABLE ==
    <<23170, 19484, 17867, 17109, 16743, 16562, 16473, 16428, 16406, 16395, 16390, 16387>>

\* 2 ** (frac / 4096) scaled by 2^14, for frac in 0..4095
RECURSIVE Exp2Frac(_, _, _)
Exp2Frac(frac, j, m) ==
    IF j > 12 THEN m
    ELSE IF (frac \div Pow2(12 - j)) % 2 = 1
         THEN Exp2Frac(frac, j + 1, (m * EXP2_TABLE[j]) \div 16384)
         ELSE Exp2Frac(frac, j + 1, m)

\* 10.0 ** (level / 10.0) for a level in milli-dB, in units of 1/64
energy(level) ==
    LET x == (level * 13607) \div 10000
        m == Exp2Frac(x % 4096, 1, 16384)
        e == x \div 4096 - 8
    IN  IF e >= 0 THEN m * Pow2(e) ELSE m \div Pow2(0 - e)

\* 10.0 * log10(energy_sum / n) in milli-dB, energy_sum in units of 1/64
leq_of(energy_sum, n) ==
    LET log2 == Log2Fix(energy_sum \div n) - Log2Fix(64)
    IN  10 * (((log2 \div 4096) * 30103) \div 100
              + ((log2 % 4096) * 30103) \div 409600)

\* the loop body of the NumPy fallback of calculate_batch and calculate_route
fallback_spl(sx, sy, sz, source_lw, source_dc, rx, ry, rz, alpha_a) ==
    LET d == _distance_3d(sx, sy, sz, rx, ry, rz)
        a_div == 20 * log10(max(d, 100), 100) + 11000
        a_atm == (alpha_a * d) \div 1000
    IN  source_lw + source_dc - a_div - a_atm

\* _calculate_batch_receivers: the array of levels, one per receiver
_calculate_batch_receivers(source_x, source_y, source_z, source_lw, source_dc, receivers, ground_factor, alpha_a) ==
    [i \in 1..Len(receivers) |->
        _calculate_spl_single(source_x, source_y, source_z, source_lw, source_dc,
                              receivers[i].x, receivers[i].y, receivers[i].z,
                              ground_factor, alpha_a).spl]

\* FastISO9613Calculator.calculate_batch(source_pos, source_lw, receivers,
\* source_dc, ground_factor)
calculate_batch(sx, sy, sz, source_lw, receivers, source_dc, ground_factor, numba) ==
    IF numba
    THEN _calculate_batch_receivers(sx, sy, sz, source_lw, source_dc, receivers,
                                    ground_factor, _alpha_a)
    ELSE [i \in 1..Len(receivers) |->
             fallback_spl(sx, sy, sz, source_lw, source_dc, receivers[i].x,
                          receivers[i].y, receivers[i].z, _alpha_a)]

\* a faulty variant: the arithmetic mean of spl_values in place of the energetic
route_levels_arithmetic(spl_values, numba) ==
    IF spl_values = <<>>
    THEN Raise(IF numba THEN "ZeroDivisionError" ELSE "ValueError")
    ELSE Return([leq |-> seq_sum(spl_values) \div Len(spl_values),
                 max_spl |-> seq_max(spl_values),
                 spl_values |-> spl_values])

\* the energetic mean and the maximum of spl_values, or the exception raised
\* for an empty array: the division energy_sum / n in the JIT kernel, np.max
\* in the fallback
route_levels(spl_values, numba) ==
    IF spl_values = <<>>
    THEN Raise(IF numba THEN "ZeroDivisionError" ELSE "ValueError")
    ELSE LET energy_sum == seq_sum([i \in 1..Len(spl_values) |-> energy(spl_values[i])])
         IN  Return([leq |-> leq_of(energy_sum, Len(spl_values)),
                     max_spl |-> seq_max(spl_values),
                     spl_values |-> spl_values])

\* _calculate_route_noise: (leq, max_spl, spl_values)
_calculate_route_noise(source_lw, source_dc, route_points, receiver_x, receiver_y, receiver_z, ground_factor, alpha_a) ==
    route_levels([i \in 1..Len(route_points) |->
                     _calculate_spl_single(route_points[i].x, route_points[i].y,
                                           route_points[i].z, source_lw, source_dc,
                                           receiver_x, receiver_y, receiver_z,
                                           ground_factor, alpha_a).spl], TRUE)

\* the dict calculate_route returns for (leq, max_spl, spl_values) over n points,
\* or the exception raised before
route_dict(levels, n) ==
    IF Raised(levels) THEN levels
    ELSE Return([leq |-> round1(levels.value.leq),
                 lmax |-> round1(levels.value.max_spl),
                 spl_profile |-> levels.value.spl_values,
                 route_points |-> n,
                 method |-> "ISO 9613-2:1996 (energetic average)"])

\* FastISO9613Calculator.calculate_route(source_lw, route_points, receiver_pos,
\* source_dc, ground_factor): the dict returned, or the exception raised
calculate_route(source_lw, route_points, rx, ry, rz, source_dc, ground_factor, numba) ==
    LET levels ==
            IF numba
            THEN _calculate_route_noise(source_lw, source_dc, route_points, rx, ry, rz,
                                        ground_factor, _alpha_a)
            ELSE route_levels([i \in 1..Len(route_points) |->
                                  fallback_spl(route_points[i].x, route_points[i].y,
                                               route_points[i].z, source_lw, source_dc,
                                               rx, ry, rz, _alpha_a)], FALSE)
    IN  route_dict(levels, Len(route_points))

\* --- Python floats (IEEE 754 binary64) in sum(spls) / len(spls) ---

\* sys.float_info.mant_dig
DBL_MANT_DIG == 53

\* the binary digits of a natural number, least significant first
RECURSIVE bits_of(_)
bits_of(n) == IF n = 0 THEN <<>> ELSE <<n % 2>> \o bits_of(n \div 2)

zero_bits(k) == [i \in 1..k |-> 0]

\* the digits without the zeros at the most significant end
RECURSIVE bits_strip(_)
bits_strip(a) ==
    IF a = <<>> \/ a[Len(a)] = 1 THEN a ELSE bits_strip(SubSeq(a, 1, Len(a) - 1))

\* the number held in the k digits of a from position i on
RECURSIVE bits_value(_, _, _)
bits_value(a, i, k) ==
    IF k = 0 THEN 0
    ELSE (IF i <= Len(a) THEN a[i] ELSE 0) + 2 * bits_value(a, i + 1, k - 1)

\* a number in limbs of 13 binary digits, least significant first
limbs_of(a) == [j \in 1..((Len(a) + 12) \div 13) |-> bits_value(a, 13 * (j - 1) + 1, 13)]

bits_of_limbs(ls) ==
    bits_strip([i \in 1..(13 * Len(ls)) |->
                   (ls[(i - 1) \div 13 + 1] \div Pow2((i - 1) % 13)) % 2])

\* the limbs of a + b + carry
RECURSIVE limbs_add(_, _, _)
limbs_add(a, b, carry) ==
    IF a = <<>> /\ b = <<>> THEN (IF carry = 1 THEN <<1>> ELSE <<>>)
    ELSE LET t == (IF a = <<>> THEN 0 ELSE Head(a)) + (IF b = <<>> THEN 0 ELSE Head(b))
                  + carry
         IN  <<t % 8192>> \o limbs_add(IF a = <<>> THEN a ELSE Tail(a),
                                       IF b = <<>> THEN b ELSE Tail(b), t \div 8192)

\* the binary digits of a + b
bits_add(a, b) == bits_of_limbs(limbs_add(limbs_of(a), limbs_of(b), 0))

\* long division of the limbs a[k], ..., a[1] (after a remainder rem) by n:
\* the remainder, then the limbs of the quotient
RECURSIVE limbs_divmod(_, _, _, _)
limbs_divmod(a, k, rem, n) ==
    IF k = 0 THEN <<rem>>
    ELSE LET cur == 8192 * rem + a[k]
         IN  limbs_divmod(a, k - 1, cur % n, n) \o <<cur \div n>>

\* the float nearest to digits * 2^e (+ a little, if sticky), ties to even:
\* m holds DBL_MANT_DIG digits, the value is m * 2^e
float_round(digits, e, sticky) ==
    LET len == Len(digits)
        drop == len - DBL_MANT_DIG
    IN  IF drop <= 0
        THEN [m |-> zero_bits(0 - drop) \o digits, e |-> e + drop]
        ELSE LET kept == SubSeq(digits, drop + 1, len)
                 rest == sticky \/ \E i \in 1..(drop - 1) : digits[i] = 1
                 up == digits[drop] = 1 /\ (rest \/ kept[1] = 1)
                 r == IF up THEN bits_add(kept, <<1>>) ELSE kept
             IN  IF Len(r) > DBL_MANT_DIG
                 THEN [m |-> SubSeq(r, 2, Len(r)), e |-> e + drop + 1]
                 ELSE [m |-> r, e |-> e + drop]

\* float(n) for an int n > 0
float_of_int(n) == float_round(bits_of(n), 0, FALSE)

\* x + y for floats x, y > 0
float_add(x, y) ==
    LET e == min(x.e, y.e)
    IN  float_round(bits_add(zero_bits(x.e - e) \o x.m, zero_bits(y.e - e) \o y.m),
                    e, FALSE)

\* x / n for a float x > 0 and an int n in 1..1000
float_div_int(x, n) ==
    LET num == limbs_of(zero_bits(12) \o x.m)
        d == limbs_divmod(num, Len(num), 0, n)
    IN  float_round(bits_of_limbs(Tail(d)), x.e - 12, Head(d) # 0)

\* x < y and x <= y for floats x, y > 0: by the exponent, then by the 53 digits
float_lt(x, y) ==
    LET a == limbs_of(x.m)
        b == limbs_of(y.m)
    IN  \/ x.e < y.e
        \/ /\ x.e = y.e
           /\ \E j \in DOMAIN a :
                  a[j] < b[j] /\ \A k \in (j + 1)..Len(a) : a[k] = b[k]

float_le(x, y) == x = y \/ float_lt(x, y)

\* the float n * 2^k for an int n > 0
float_scaled(n, k) == float_round(bits_of(n), k, FALSE)

\* the float a level in milli-dB that is a whole number of tenths of a dB
\* is held as after round(spl, 1): the float nearest to level / 100 / 10
float_of_level(level) == float_div_int(float_of_int(level \div 100), 10)

\* 0.0
float_zero == [m |-> <<>>, e |-> 0]

\* the builtin min(levels): the smallest element, the first one of equals
RECURSIVE builtin_min(_, _)
builtin_min(levels, k) ==
    IF k = 1 THEN levels[1]
    ELSE LET best == builtin_min(levels, k - 1)
         IN  IF levels[k] < best THEN levels[k] ELSE best

\* the builtin max(levels): the largest element, the first one of equals
RECURSIVE builtin_max(_, _)
builtin_max(levels, k) ==
    IF k = 1 THEN levels[1]
    ELSE LET best == builtin_max(levels, k - 1)
         IN  IF levels[k] > best THEN levels[k] ELSE best

\* the builtin sum(levels) of k >= 1 floats: 0 + levels[1] + ... + levels[k],
\* added from the left, each addition rounded
RECURSIVE builtin_sum(_, _)
builtin_sum(levels, k) ==
    IF k = 1 THEN float_of_level(levels[1])
    ELSE float_add(builtin_sum(levels, k - 1), float_of_level(levels[k]))

\* min_spl_dba, max_spl_dba and avg_spl_dba of the /calculate/grid response;
\* the levels are spl_dba values, each a positive whole number of tenths
api_grid_statistics(levels) ==
    IF levels = <<>>
    THEN [min_spl_dba |-> 0, max_spl_dba |-> 0, avg_spl_dba |-> float_zero]
    ELSE [min_spl_dba |-> builtin_min(levels, Len(levels)),
          max_spl_dba |-> builtin_max(levels, Len(levels)),
          avg_spl_dba |-> float_div_int(builtin_sum(levels, Len(levels)), Len(levels))]

\* min_spl, max_spl and mean_spl of calculate_grid_fast's stats, or the ValueError
\* np.min raises on an empty matrix
np_stats(values) ==
    IF values = <<>> THEN Raise("ValueError")
    ELSE Return([min_spl |-> round1(seq_min(values)),
                 max_spl |-> round1(seq_max(values)),
                 mean_spl |-> round1(seq_sum(values) \div Len(values))])

\* --- POST /calculate/grid ---

\* a float of a request body: a number of centimetres, or NaN
Num(v) == [nan |-> FALSE, v |-> v]
NaN == [nan |-> TRUE, v |-> 0]

\* a >= b, a > b and a - b on such floats: a comparison with NaN is false
num_ge(a, b) == ~a.nan /\ ~b.nan /\ a.v >= b.v
num_gt(a, b) == ~a.nan /\ ~b.nan /\ a.v > b.v
num_sub(a, b) == IF a.nan \/ b.nan THEN NaN ELSE Num(a.v - b.v)

\* GridCalculationInput.validate_bbox
validate_bbox(v) ==
    IF num_ge(v.xmin, v.xmax) \/ num_ge(v.ymin, v.ymax)
    THEN Raise("ValueError")
    ELSE IF num_gt(num_sub(v.xmax, v.xmin), Num(200000))
            \/ num_gt(num_sub(v.ymax, v.ymin), Num(200000))
         THEN Raise("ValueError")
         ELSE Return(v)

\* GridCalculationInput(**body): the validated request, or the validation error;
\* grid_size_m is an int with ge=5, le=100
GridCalculationInput(body) ==
    IF Raised(validate_bbox(body.bbox)) \/ body.grid_size_m < 5 \/ body.grid_size_m > 100
    THEN Raise("RequestValidationError")
    ELSE Return(body)

\* the inner and the outer while loop of ISO9613Calculator.calculate_grid: the
\* positions of the results, in the order they are appended
RECURSIVE grid_column(_, _, _, _)
grid_column(x, y, maxy, step) ==
    IF y <= maxy THEN <<[x |-> x, y |-> y]>> \o grid_column(x, y + step, maxy, step)
    ELSE <<>>

RECURSIVE grid_positions(_, _, _, _, _)
grid_positions(x, miny, maxx, maxy, step) ==
    IF x <= maxx
    THEN grid_column(x, miny, maxy, step) \o grid_positions(x + step, miny, maxx, maxy, step)
    ELSE <<>>

\* calculator.calculate_grid on the bbox of a request, by the positions of its
\* results: with a NaN bound the test of the outer or of the inner while loop
\* is false at once and nothing is appended
request_grid(box, grid_size_m) ==
    IF box.xmin.nan \/ box.xmax.nan \/ box.ymin.nan \/ box.ymax.nan
    THEN <<>>
    ELSE grid_positions(box.xmin.v, box.ymin.v, box.xmax.v, box.ymax.v, 100 * grid_size_m)

\* the endpoint calculate_grid: the answer, and the calls of the core it made
post_calculate_grid(body) ==
    LET request == GridCalculationInput(body)
    IN  IF Raised(request) THEN [response |-> request, calls |-> <<>>]
        ELSE LET results == request_grid(body.bbox, body.grid_size_m)
             IN  [response |-> Return([grid_size_m |-> body.grid_size_m,
                                       total_points |-> Len(results),
                                       grid_data |-> results]),
                  calls |-> <<[bbox |-> body.bbox, grid_size |-> body.grid_size_m,
                               receiver_height |-> body.receiver_height_m]>>]

\* --- NRWDataLoader ---

\* _parse_alkis_geojson: one parcel per feature; float() of an area that is
\* not a number raises
_parse_alkis_geojson(outcome) ==
    IF outcome.kind = "bad_area" THEN Raise("ValueError")
    ELSE Return([i \in 1..outcome.features |-> "ALKISFlurstueck"])

\* _load_alkis_via_owslib: any failure of the service is an exception of getfeature
_load_alkis_via_owslib(outcome) ==
    IF outcome.kind = "timeout" THEN Raise("ConnectionError")
    ELSE IF outcome.kind = "http" THEN Raise("ServiceException")
    ELSE _parse_alkis_geojson(outcome)

\* _load_alkis_via_requests
_load_alkis_via_requests(outcome, requests_available) ==
    IF ~requests_available THEN Raise("RuntimeError")
    ELSE IF outcome.kind = "timeout" THEN Raise("ConnectionError")
    ELSE IF outcome.kind = "http" THEN Raise("RuntimeError")
    ELSE _parse_alkis_geojson(outcome)

\* the AuditRecord that _log_audit builds
AuditRecord(success, record_count, error_message) ==
    [data_source |-> "ALKIS", success |-> success, record_count |-> record_count,
     error_message |-> error_message]

\* load_alkis_data: the list returned and the audit entries written
load_alkis_data(outcome, owslib_available, requests_available) ==
    LET loaded == IF owslib_available THEN _load_alkis_via_owslib(outcome)
                  ELSE _load_alkis_via_requests(outcome, requests_available)
    IN  IF Raised(loaded)
        THEN [value |-> <<>>, audit |-> <<AuditRecord(FALSE, 0, loaded.raised)>>]
        ELSE [value |-> loaded.value, audit |-> <<>>]

(***************************************************************************)
(* ConnectionManager and the websocket endpoint (api/websocket.py)         *)
(*                                                                         *)
(* The tasks of the event loop run one at a time and change hands only     *)
(* where a task really waits: accept, receive_text, send_text and          *)
(* message_queue.get.  The lock is never held across such a wait, so       *)
(* "async with self._lock" never waits either and each locked block        *)
(* belongs to the step it stands in; message_queue.put on the unbounded    *)
(* queue does not wait.                                                    *)
(***************************************************************************)

\* the manager's two collections as one value
Manager(conns, subs) == [active |-> conns, subs |-> subs]

\* the dict without entries
EmptyDict == [d \in {} |-> {}]

\* a faulty variant: the websocket stays in the subscription sets
disconnect_connections_only(m, ws) == Manager(m.active \ {ws}, m.subs)

\* ConnectionManager.disconnect
disconnect(m, ws) ==
    LET kept == {d \in DOMAIN m.subs : m.subs[d] \ {ws} # {}}
    IN  Manager(m.active \ {ws}, [d \in kept |-> m.subs[d] \ {ws}])

\* for ws in disconnected: await self.disconnect(ws)
RECURSIVE disconnect_each(_, _)
disconnect_each(m, failed) ==
    IF failed = {} THEN m
    ELSE LET ws == CHOOSE w \in failed : TRUE
         IN  disconnect_each(disconnect(m, ws), failed \ {ws})

\* ConnectionManager.subscribe
subscribe(subs, ws, drone_id) ==
    [d \in DOMAIN subs \cup {drone_id} |->
        IF d = drone_id
        THEN (IF d \in DOMAIN subs THEN subs[d] ELSE {}) \cup {ws}
        ELSE subs[d]]

\* ConnectionManager.unsubscribe
unsubscribe(subs, ws, drone_id) ==
    IF drone_id \in DOMAIN subs THEN [subs EXCEPT ![drone_id] = @ \ {ws}] ELSE subs

\* self.subscriptions.get(drone_id, set())
subscribers_of(subs, drone_id) == IF drone_id \in DOMAIN subs THEN subs[drone_id] ELSE {}

\* a faulty variant: the loop over the connections ends at the first failed send
connections_left_break(rest, sent) == IF sent THEN rest ELSE {}

\* the connections the loop of broadcast still has to send to after one send
connections_left(rest, sent) == rest

\* the locals of a handler that is not inside send_to_subscribers
HandlerAt(pc) == [pc |-> pc, message |-> 0, subscribers |-> {}, disconnected |-> {}]

\* the broadcaster task before start_broadcaster
NoBroadcaster ==
    [pc |-> "none", message |-> 0, connections |-> {}, disconnected |-> {},
     snapshot |-> {}, attempted |-> {}]

(***************************************************************************)
(* GeodataService (integrations/geodata_service.py): the cache             *)
(***************************************************************************)

\* GeodataService.CACHE_TTL, seconds
CACHE_TTL == [weather |-> 600, parcels |-> 86400, noise |-> 86400, status |-> 300]

\* an Optional list: None, or the list
NoList == [is_none |-> TRUE, items |-> <<>>]
SomeList(items) == [is_none |-> FALSE, items |-> items]

\* GeodataService._get_cached
_get_cached(cache, key, ttl_type, clock) ==
    IF key \in DOMAIN cache /\ clock - cache[key].cached_time < dict_get(CACHE_TTL, ttl_type, 300)
    THEN SomeList(cache[key].value)
    ELSE NoList

\* GeodataService._set_cached
_set_cached(cache, key, value, clock) ==
    [k \in DOMAIN cache \cup {key} |->
        IF k = key THEN [cached_time |-> clock, value |-> value] ELSE cache[k]]

\* get_parcels and get_ambient_noise share their shape: look the key up, on
\* "if cached" return it; otherwise take the loader (whose construction
\* raises, see _check_dependencies, unless one is in place), load, convert
\* item by item, store and return; any exception gives [] and stores nothing.
\* outcome is what the loader does if it is called.
get_from_service(cache, loader, key, clock, outcome) ==
    LET cached == _get_cached(cache, key, key.prefix, clock)
    IN  IF truthy(cached)
        THEN [result |-> cached.items, cache |-> cache, invoked |-> 0]
        ELSE IF loader = "None"
        THEN [result |-> <<>>, cache |-> cache, invoked |-> 0]
        ELSE IF Raised(outcome)
        THEN [result |-> <<>>, cache |-> cache, invoked |-> 1]
        ELSE [result |-> outcome.value,
              cache |-> _set_cached(cache, key, outcome.value, clock), invoked |-> 1]

(***************************************************************************)
(* What the calls leave behind                                             *)
(***************************************************************************)

\* WeatherConditions(): the defaults, in tenths
WeatherConditions ==
    [temperature_celsius |-> 150, relative_humidity_percent |-> 700,
     atmospheric_pressure_hpa |-> 10132, wind_speed_ms |-> 0, wind_direction_deg |-> 0,
     condition |-> "neutral"]

\* the objects a call can reach: its arguments, the calculator, the class tables
Objects(src, rcv, obs, weather_now, tables) ==
    [source |-> src, receiver |-> rcv, obstacles |-> obs, weather |-> weather_now,
     tables |-> tables]

\* a faulty variant: calculate takes the obstacles off the caller's list
after_calculate_consuming(objects) == [objects EXCEPT !.obstacles = <<>>]

\* the objects after ISO9613Calculator.calculate: it assigns to locals only
\* and builds its result and the notes list anew
after_calculate(objects) == objects

\* the objects after ISO9613Calculator.calculate_grid: it builds the receivers
\* and the result list anew and calls calculate
after_calculate_grid(objects) == after_calculate(objects)

\* the objects after TALaermChecker.check_compliance: it reads LIMITS and
\* builds a new dict
after_check_compliance(objects) == objects

(***************************************************************************)
(* Inputs                                                                  *)
(***************************************************************************)

\* the levels handed to check_compliance lie within MaxLevelSteps steps of
\* 0.02 dB around a whole number of dB
MaxLevelSteps == 3

\* 0.02 dB steps: no margin lies on a rounding tie of round(margin, 1)
SplInputs ==
    {base * 1000 + k * 20 :
        base \in {34, 35, 40, 45, 50, 55, 60, 65, 70, 71},
        k \in -MaxLevelSteps..MaxLevelSteps}

KnownZones ==
    {"industriegebiet", "gewerbegebiet", "kerngebiet", "mischgebiet",
     "allgemeines_wohngebiet", "reines_wohngebiet", "kurgebiet", "krankenhaus"}

ZoneInputs ==
    KnownZones \cup {"Mischgebiet", "INDUSTRIEGEBIET", "Reines_Wohngebiet",
                     "Unknown_Zone", "unknown_zone", "nonexistent_zone", ""}

\* the obstacle lists handed to calculate hold at most MaxObstacles obstacles
MaxObstacles == 2

NoSpectrum == [is_none |-> TRUE, items |-> <<>>]
Spectrum(items) == [is_none |-> FALSE, items |-> items]

SourceInputs ==
    [lw : {75000}, x : {0}, y : {0}, z : {200, 5000, 10000, 12000},
     directivity : {0, 2500},
     frequency_spectrum :
        {NoSpectrum, Spectrum(<<>>), Spectrum((500 :> 10) @@ (333 :> 20))}]

AllGroundTypes == {"hard", "soft", "mixed"}

ReceiverInputs ==
    [x : {10000}, y : {0}, z : {400}, ground_type : AllGroundTypes]
    \cup [x : {50}, y : {0}, z : {5000, 12000}, ground_type : {"mixed"}]
    \cup [x : {100}, y : {0}, z : {5000}, ground_type : {"mixed"}]
    \cup [x : {3000}, y : {4000}, z : {0}, ground_type : {"soft"}]
    \cup [x : {0}, y : {0}, z : {400}, ground_type : {"hard"}]

\* seen from the source at 50 m and the receiver at (100 m, 0, 4 m): a wall well
\* above the line of sight, one 6 m and one 3 m above it, and one whose top lies
\* on it
ObstacleInputs ==
    {[x |-> 5000, y |-> 0, height |-> 6000, width |-> 1000, length |-> 1000],
     [x |-> 5000, y |-> 0, height |-> 3300, width |-> 1000, length |-> 1000],
     [x |-> 5000, y |-> 0, height |-> 3000, width |-> 1000, length |-> 1000],
     [x |-> 5000, y |-> 0, height |-> 2700, width |-> 1000, length |-> 1000]}

RECURSIVE ListsUpTo(_, _)
ListsUpTo(S, n) ==
    IF n = 0 THEN {<<>>}
    ELSE LET shorter == ListsUpTo(S, n - 1)
         IN  shorter \cup {Append(l, e) : l \in {t \in shorter : Len(t) = n - 1}, e \in S}

ObstacleListInputs == ListsUpTo(ObstacleInputs, MaxObstacles)

\* the obstacle lists handed to calculate: the wall above the line of sight and
\* the one 3 m above it
CalcObstacleListInputs ==
    ListsUpTo({o \in ObstacleInputs : o.height \in {6000, 3000}}, MaxObstacles)

\* the sources handed to _barrier_attenuation, which reads their position only
BarrierSourceInputs ==
    {s \in SourceInputs : s.directivity = 0 /\ s.frequency_spectrum = NoSpectrum}

\* the distances handed to _geometric_divergence and _ground_effect, in
\* centimetres: negative, zero, below, at and above 1 m, and below, at and above
\* the height difference of 46 m between TermSourceInputs and TermReceiverInputs
DistanceInputs == {-100, 0, 50, 99, 100, 101, 1000, 4500, 4600, 4700, 10000}

TermSourceInputs ==
    {s \in BarrierSourceInputs : s.z \in {200, 5000}}

TermReceiverInputs ==
    {r \in ReceiverInputs : r.x = 10000 /\ r.ground_type = "mixed"}

\* the longest array handed to calculate_batch and calculate_route
MaxPoints == 2

\* rows of an (n, 3) array: a point 2 m above the origin, one 50 m from it, and
\* one half a metre from the receiver of TermReceiverInputs
PointInputs ==
    {[x |-> 0, y |-> 0, z |-> 200], [x |-> 3000, y |-> 4000, z |-> 400],
     [x |-> 9950, y |-> 0, z |-> 400]}

PointListInputs == ListsUpTo(PointInputs, MaxPoints)

BatchSourceInputs ==
    {s \in BarrierSourceInputs : s.z = 200}
    \cup {[s EXCEPT !.directivity = 2500] : s \in {t \in BarrierSourceInputs : t.z = 200}}

\* a bbox of 50 m x 50 m, and one whose maxx lies more than a step below minx
BatchBBoxInputs ==
    {[minx |-> 0, miny |-> 0, maxx |-> 5000, maxy |-> 5000],
     [minx |-> 5000, miny |-> 0, maxx |-> -5000, maxy |-> 0]}

\* the longest result set the statistics are taken over
MaxResults == 3

\* spl_dba values of a result set: 45.1, 48.7 and 52.3 dB
StatLevelInputs == {45100, 48700, 52300}

StatListInputs == ListsUpTo(StatLevelInputs, MaxResults)

\* the bboxes whose rasters are handed to _calculate_grid_parallel: two columns,
\* one or two rows
ParallelBBoxInputs ==
    {[minx |-> 0, miny |-> 0, maxx |-> 5000, maxy |-> 0],
     [minx |-> 0, miny |-> 0, maxx |-> 5000, maxy |-> 5000]}

\* the longest array spl_values the energetic mean is taken over
MaxRouteLevels == 2

\* per-point levels of a route, between 20 and 70 dB
RouteLevelInputs == {20000, 26355, 45100, 59995, 60000, 65000, 69950, 70000}

RouteLevelListInputs == ListsUpTo(RouteLevelInputs, MaxRouteLevels)

\* calls of load_alkis_data on one loader
MaxLoads == 2

\* what the WFS service does with a request: features (none, one or two), an
\* HTTP error status, no answer, a feature whose area is not a number
WfsOutcomes ==
    {[kind |-> "features", features |-> n] : n \in 0..2}
    \cup {[kind |-> "http", features |-> 0], [kind |-> "timeout", features |-> 0],
          [kind |-> "bad_area", features |-> 1]}

\* the clients and the drones of the websocket model
Websockets == {"ws1", "ws2"}
Drones == {"drone-001"}

\* texts the clients send over their connections, all clients together
MaxSends == 2

\* what a client sends: the three message types the endpoint knows
ClientMessages ==
    [type : {"subscribe", "unsubscribe", "drone-position"}, droneId : Drones]

\* the texts of each client, in the order sent
ClientScripts ==
    {script \in [Websockets -> ListsUpTo(ClientMessages, MaxSends)] :
        Len(script["ws1"]) + Len(script["ws2"]) <= MaxSends}

\* the arguments of get_parcels ("parcels") and get_ambient_noise ("noise"),
\* as far as they enter the cache key
CacheKeys == [prefix : {"parcels", "noise"}, bbox : {<<0, 0, 10, 10>>, <<0, 0, 20, 20>>}]

\* what the loader does when called: no items, one item, an exception
LoaderOutcomes == {Return(<<>>), Return(<<"item">>), Raise("Exception")}

\* seconds by which the clock advances between calls
ClockSteps == {1, 86399}

\* advances of the clock, and calls of the service
MaxTicks == 3
MaxServiceCalls == 3

\* calls made one after the other on the same objects
MaxFrameCalls == 3

\* the calls: calculate, calculate_grid, check_compliance by day and by night
FrameCalls == {"calculate", "calculate_grid", "check_compliance", "check_compliance_night"}

\* the count kept per point: once, twice, ..., MaxVisits or more
MaxVisits == 2

\* bboxes in metres: 10 m x 10 m, a single column, an inverted one, and two at
\* x = 2^56 m, where neighbouring floats are 16 m apart
LoopBBoxInputs ==
    {[minx |-> float_of_int(10), miny |-> float_of_int(10),
      maxx |-> float_of_int(20), maxy |-> float_of_int(20)],
     [minx |-> float_of_int(10), miny |-> float_of_int(10),
      maxx |-> float_of_int(12), maxy |-> float_of_int(110)],
     [minx |-> float_of_int(20), miny |-> float_of_int(10),
      maxx |-> float_of_int(10), maxy |-> float_of_int(20)],
     [minx |-> float_scaled(1, 56), miny |-> float_of_int(10),
      maxx |-> float_add(float_scaled(1, 56), float_of_int(16)), maxy |-> float_of_int(20)],
     [minx |-> float_scaled(1, 56), miny |-> float_of_int(10),
      maxx |-> float_add(float_scaled(1, 56), float_of_int(208)), maxy |-> float_of_int(10)]}

\* grid sizes in metres
LoopGridSizeInputs == {5, 10, 100}

\* the values x takes in "while x <= stop: ...; x += step", up to the first one
\* beyond stop or the first one that x += step leaves as it is
RECURSIVE axis_values(_, _, _)
axis_values(x, stop, step) ==
    IF float_le(x, stop) /\ float_add(x, step) # x
    THEN {x} \cup axis_values(float_add(x, step), stop, step)
    ELSE {x}

\* x + grid_size for every x and y the loops can hold, computed once
float_sums ==
    [x \in UNION {axis_values(b.minx, b.maxx, float_of_int(g))
                      \cup axis_values(b.miny, b.maxy, float_of_int(g)) :
                  b \in LoopBBoxInputs, g \in LoopGridSizeInputs},
     step \in {float_of_int(g) : g \in LoopGridSizeInputs} |-> float_add(x, step)]

\* the bbox extents handed to calculate_grid are 0..MaxExtentSteps steps of 50 m
MaxExtentSteps == 2

BBoxInputs ==
    {[minx |-> 0, miny |-> 0, maxx |-> ex * 5000, maxy |-> ey * 5000] :
        ex \in 0..MaxExtentSteps, ey \in 0..MaxExtentSteps}
    \cup {[minx |-> -5000, miny |-> -2500, maxx |-> 5000, maxy |-> 2500]}

\* 30 m, 50 m and 100 m
GridSizeInputs == {3000, 5000, 10000}

GridSourceInputs ==
    {[lw |-> 75000, x |-> 0, y |-> 0, z |-> 5000, directivity |-> 0,
      frequency_spectrum |-> NoSpectrum],
     [lw |-> 75000, x |-> 1000, y |-> 0, z |-> 200, directivity |-> 2500,
      frequency_spectrum |-> NoSpectrum]}

\* the bbox of a request, in centimetres
RequestBBox(xmin, ymin, xmax, ymax) == [xmin |-> xmin, ymin |-> ymin, xmax |-> xmax, ymax |-> ymax]

\* bboxes of 10 m x 10 m and of 2000 m x 10 m; with no extent, inverted, one
\* centimetre too wide or too high; with a bound that is NaN
RequestBBoxInputs ==
    {RequestBBox(Num(0), Num(0), Num(1000), Num(1000)),
     RequestBBox(Num(0), Num(0), Num(200000), Num(1000)),
     RequestBBox(Num(0), Num(0), Num(0), Num(1000)),
     RequestBBox(Num(1000), Num(0), Num(0), Num(1000)),
     RequestBBox(Num(0), Num(0), Num(1000), Num(0)),
     RequestBBox(Num(0), Num(1000), Num(1000), Num(0)),
     RequestBBox(Num(0), Num(0), Num(200001), Num(1000)),
     RequestBBox(Num(0), Num(0), Num(1000), Num(200001)),
     RequestBBox(NaN, Num(0), Num(1000), Num(1000)),
     RequestBBox(Num(0), Num(0), NaN, Num(1000)),
     RequestBBox(Num(0), NaN, Num(1000), Num(1000)),
     RequestBBox(Num(0), Num(0), Num(1000), NaN)}

\* grid_size_m around both ends of the range 5..100
RequestGridSizeInputs == {0, 4, 5, 50, 100, 101}

\* request bodies; the bbox of 2000 m is asked for at 50 m and coarser
GridRequestInputs ==
    {b \in [source : {s \in GridSourceInputs : s.directivity = 0}, bbox : RequestBBoxInputs,
            grid_size_m : RequestGridSizeInputs, receiver_height_m : {400}] :
        b.bbox.xmax = Num(200000) => b.grid_size_m # 5}

(***************************************************************************)
(* State machines                                                          *)
(***************************************************************************)

NoVerdict == [b \in BOOLEAN |-> None]

IdleCompliance == spl = 0 /\ zone_type = "" /\ verdict = NoVerdict

IdleCalc ==
    /\ source = None /\ receiver = None /\ obstacles = <<>>
    /\ octave_bands = FALSE /\ iso_result = None /\ fast_result = None
    /\ barrier_result = None

IdleGrid ==
    /\ bbox = None /\ grid_size = 0 /\ receiver_height = 0
    /\ iso_grid = None /\ fast_grid = None

NoTermResults == [f \in {"_geometric_divergence", "_geometric_divergence_jit"} |-> None]
NoGroundResults ==
    [f \in {"_ground_effect", "_ground_effect_jit"} |-> [g \in AllGroundTypes |-> None]]

IdleTerms ==
    distance_in = 0 /\ a_div_results = NoTermResults /\ a_gr_results = NoGroundResults

IdleBatch ==
    /\ points = <<>> /\ ground_factor_in = 5
    /\ batch_result = None /\ route_result = None /\ grid_fast_result = None

IdleStats == spls = <<>> /\ api_stats = None /\ fast_stats = None

IdleParallel ==
    /\ kernel = "" /\ iter_pc = <<>> /\ iter_spl = <<>>
    /\ result_array = <<>> /\ kernel_out = None

IdleLevels == spl_values_in = <<>> /\ route_summary = None

IdleApi == grid_request = None /\ grid_response = None /\ core_calls = <<>>

IdleLoader ==
    /\ OWSLIB_AVAILABLE = FALSE /\ REQUESTS_AVAILABLE = FALSE
    /\ audit_records = <<>> /\ audit_log = <<>> /\ alkis_result = None /\ load_calls = 0

IdleWs ==
    /\ active_connections = {} /\ subscriptions = EmptyDict /\ message_queue = <<>>
    /\ peer = <<>> /\ inbox = <<>> /\ handler = <<>> /\ broadcaster = NoBroadcaster
    /\ delivered = <<>> /\ audience = <<>> /\ disconnect_calls = {}

IdleCache ==
    /\ _cache = <<>> /\ _nrw_loader = "None" /\ now = 0 /\ clock_ticks = 0
    /\ loader_invocations = 0 /\ service_calls = <<>> /\ service_result = None

IdleFrame == calc_weather = None /\ class_tables = None /\ call_log = <<>>

IdleLoop ==
    /\ loop_bbox = None /\ loop_step = None /\ loop_pc = "idle"
    /\ loop_x = None /\ loop_y = None /\ visits = <<>>

IdleAux == IdleTerms /\ IdleBatch /\ IdleStats /\ IdleParallel /\ IdleLevels /\ IdleApi /\ IdleLoader /\ IdleWs /\ IdleCache /\ IdleFrame /\ IdleLoop

\* --- TALaermChecker ---

InitCompliance ==
    /\ spl \in SplInputs
    /\ zone_type \in ZoneInputs
    /\ verdict = NoVerdict
    /\ NUMBA_AVAILABLE = TRUE
    /\ IdleCalc /\ IdleGrid /\ IdleAux

\* a call TALaermChecker.check_compliance(spl, zone_type, is_night)
CheckCompliance(is_night) ==
    /\ verdict' = [verdict EXCEPT ![is_night] = check_compliance(spl, zone_type, is_night)]
    /\ UNCHANGED <<spl, zone_type, NUMBA_AVAILABLE, calc_vars, grid_vars,
                   aux_vars>>

NextCompliance == \E is_night \in BOOLEAN : CheckCompliance(is_night)

SpecCompliance == InitCompliance /\ [][NextCompliance]_vars

\* --- calculate ---

InitCalc ==
    /\ source \in SourceInputs
    /\ receiver \in ReceiverInputs
    /\ obstacles \in CalcObstacleListInputs
    /\ octave_bands \in BOOLEAN
    /\ iso_result = None /\ fast_result = None /\ barrier_result = None
    /\ NUMBA_AVAILABLE = TRUE
    /\ IdleCompliance /\ IdleGrid /\ IdleAux

\* a call ISO9613Calculator().calculate(source, receiver, obstacles, octave_bands)
IsoCalculate ==
    /\ iso_result' = calculate(source, receiver, obstacles, octave_bands)
    /\ UNCHANGED <<source, receiver, obstacles, octave_bands, fast_result,
                   barrier_result,
                   NUMBA_AVAILABLE, compliance_vars, grid_vars,
                   aux_vars>>

\* a call FastISO9613Calculator().calculate(source, receiver, obstacles, octave_bands)
FastCalculate ==
    /\ fast_result' = fast_calculate(source, receiver, obstacles, octave_bands)
    /\ UNCHANGED <<source, receiver, obstacles, octave_bands, iso_result,
                   barrier_result,
                   NUMBA_AVAILABLE, compliance_vars, grid_vars,
                   aux_vars>>

NextCalc == IsoCalculate \/ FastCalculate

SpecCalc == InitCalc /\ [][NextCalc]_vars

\* --- _barrier_attenuation ---

InitBarrier ==
    /\ source \in BarrierSourceInputs
    /\ receiver \in ReceiverInputs
    /\ obstacles \in ObstacleListInputs
    /\ octave_bands = FALSE
    /\ iso_result = None /\ fast_result = None /\ barrier_result = None
    /\ NUMBA_AVAILABLE = TRUE
    /\ IdleCompliance /\ IdleGrid /\ IdleAux

\* a call ISO9613Calculator()._barrier_attenuation(source, receiver, obstacles)
BarrierAttenuation ==
    /\ barrier_result' = Return(_barrier_attenuation(source, receiver, obstacles))
    /\ UNCHANGED <<source, receiver, obstacles, octave_bands, iso_result,
                   fast_result, NUMBA_AVAILABLE, compliance_vars, grid_vars,
                   aux_vars>>

NextBarrier == BarrierAttenuation

SpecBarrier == InitBarrier /\ [][NextBarrier]_vars

\* --- calculate_grid ---

InitGrid ==
    /\ source \in GridSourceInputs
    /\ bbox \in BBoxInputs
    /\ grid_size \in GridSizeInputs
    /\ receiver_height \in {400}
    /\ NUMBA_AVAILABLE \in BOOLEAN
    /\ iso_grid = None /\ fast_grid = None
    /\ receiver = None /\ obstacles = <<>> /\ octave_bands = FALSE
    /\ iso_result = None /\ fast_result = None /\ barrier_result = None
    /\ IdleCompliance /\ IdleAux

\* a call ISO9613Calculator().calculate_grid(source, bbox, grid_size, receiver_height)
IsoCalculateGrid ==
    /\ iso_grid' = iso_calculate_grid(source, bbox, grid_size, receiver_height)
    /\ UNCHANGED <<bbox, grid_size, receiver_height, fast_grid, NUMBA_AVAILABLE,
                   calc_vars, compliance_vars,
                   aux_vars>>

\* a call FastISO9613Calculator().calculate_grid(source, bbox, grid_size, receiver_height)
FastCalculateGrid ==
    /\ fast_grid' = fast_calculate_grid(source, bbox, grid_size, receiver_height,
                                        NUMBA_AVAILABLE)
    /\ UNCHANGED <<bbox, grid_size, receiver_height, iso_grid, NUMBA_AVAILABLE,
                   calc_vars, compliance_vars,
                   aux_vars>>

NextGrid == IsoCalculateGrid \/ FastCalculateGrid

SpecGrid == InitGrid /\ [][NextGrid]_vars

\* --- _geometric_divergence, _ground_effect and their JIT versions ---

InitTerms ==
    /\ IdleLoop
    /\ IdleFrame
    /\ IdleCache
    /\ IdleWs
    /\ IdleLoader
    /\ IdleApi
    /\ IdleLevels
    /\ IdleParallel
    /\ IdleStats
    /\ source \in TermSourceInputs
    /\ receiver \in TermReceiverInputs
    /\ distance_in \in DistanceInputs
    /\ a_div_results = NoTermResults /\ a_gr_results = NoGroundResults
    /\ obstacles = <<>> /\ octave_bands = FALSE
    /\ iso_result = None /\ fast_result = None /\ barrier_result = None
    /\ NUMBA_AVAILABLE = TRUE
    /\ IdleCompliance /\ IdleGrid /\ IdleBatch

\* a call ISO9613Calculator()._geometric_divergence(distance)
IsoGeometricDivergence ==
    /\ a_div_results' = [a_div_results EXCEPT
           !["_geometric_divergence"] = Return(_geometric_divergence(distance_in))]
    /\ UNCHANGED <<distance_in, a_gr_results, NUMBA_AVAILABLE, calc_vars,
                   compliance_vars, grid_vars, batch_vars, stats_vars, par_vars, level_vars, api_vars, loader_vars, ws_vars, cache_vars, frame_vars, loop_vars>>

\* a call _geometric_divergence_jit(distance)
JitGeometricDivergence ==
    /\ a_div_results' = [a_div_results EXCEPT
           !["_geometric_divergence_jit"] = Return(_geometric_divergence_jit(distance_in))]
    /\ UNCHANGED <<distance_in, a_gr_results, NUMBA_AVAILABLE, calc_vars,
                   compliance_vars, grid_vars, batch_vars, stats_vars, par_vars, level_vars, api_vars, loader_vars, ws_vars, cache_vars, frame_vars, loop_vars>>

\* a call ISO9613Calculator()._ground_effect(source, receiver, distance) for the
\* receiver on ground of type g
IsoGroundEffect(g) ==
    /\ a_gr_results' = [a_gr_results EXCEPT !["_ground_effect"][g] =
           _ground_effect(source, [receiver EXCEPT !.ground_type = g], distance_in)]
    /\ UNCHANGED <<distance_in, a_div_results, NUMBA_AVAILABLE, calc_vars,
                   compliance_vars, grid_vars, batch_vars, stats_vars, par_vars, level_vars, api_vars, loader_vars, ws_vars, cache_vars, frame_vars, loop_vars>>

\* a call _ground_effect_jit(source.z, receiver.z, distance, ground_factor) with
\* the ground factor FastISO9613Calculator.calculate hands in for ground type g
JitGroundEffect(g) ==
    /\ a_gr_results' = [a_gr_results EXCEPT !["_ground_effect_jit"][g] =
           Return(_ground_effect_jit(source.z, receiver.z, distance_in,
                                     fast_ground_factor(g)))]
    /\ UNCHANGED <<distance_in, a_div_results, NUMBA_AVAILABLE, calc_vars,
                   compliance_vars, grid_vars, batch_vars, stats_vars, par_vars, level_vars, api_vars, loader_vars, ws_vars, cache_vars, frame_vars, loop_vars>>

NextTerms ==
    \/ IsoGeometricDivergence
    \/ JitGeometricDivergence
    \/ \E g \in AllGroundTypes : IsoGroundEffect(g)
    \/ \E g \in AllGroundTypes : JitGroundEffect(g)

SpecTerms == InitTerms /\ [][NextTerms]_vars

\* --- calculate_batch, calculate_route, calculate_grid_fast ---

InitBatch ==
    /\ IdleLoop
    /\ IdleFrame
    /\ IdleCache
    /\ IdleWs
    /\ IdleLoader
    /\ IdleApi
    /\ IdleLevels
    /\ IdleParallel
    /\ IdleStats
    /\ source \in BatchSourceInputs
    /\ receiver \in TermReceiverInputs
    /\ points \in PointListInputs
    /\ ground_factor_in \in {0, 5, 10}
    /\ NUMBA_AVAILABLE \in BOOLEAN
    /\ bbox \in BatchBBoxInputs
    /\ grid_size = 5000 /\ receiver_height = 400
    /\ batch_result = None /\ route_result = None /\ grid_fast_result = None
    /\ iso_grid = None /\ fast_grid = None
    /\ obstacles = <<>> /\ octave_bands = FALSE
    /\ iso_result = None /\ fast_result = None /\ barrier_result = None
    /\ IdleCompliance /\ IdleTerms

\* a call FastISO9613Calculator().calculate_batch((source.x, source.y, source.z),
\* source.lw, points, source.directivity, ground_factor)
CalculateBatch ==
    /\ batch_result' = Return(calculate_batch(source.x, source.y, source.z, source.lw,
                                              points, source.directivity,
                                              ground_factor_in, NUMBA_AVAILABLE))
    /\ UNCHANGED <<points, ground_factor_in, route_result, grid_fast_result,
                   NUMBA_AVAILABLE, calc_vars, compliance_vars, grid_vars, term_vars, stats_vars, par_vars, level_vars, api_vars, loader_vars, ws_vars, cache_vars, frame_vars, loop_vars>>

\* a call FastISO9613Calculator().calculate_route(source.lw, points,
\* (receiver.x, receiver.y, receiver.z), source.directivity, ground_factor)
CalculateRoute ==
    /\ route_result' = calculate_route(source.lw, points, receiver.x, receiver.y,
                                       receiver.z, source.directivity,
                                       ground_factor_in, NUMBA_AVAILABLE)
    /\ UNCHANGED <<points, ground_factor_in, batch_result, grid_fast_result,
                   NUMBA_AVAILABLE, calc_vars, compliance_vars, grid_vars, term_vars, stats_vars, par_vars, level_vars, api_vars, loader_vars, ws_vars, cache_vars, frame_vars, loop_vars>>

\* a call FastISO9613Calculator().calculate_grid_fast((source.x, source.y,
\* source.z), source.lw, bbox, grid_size, receiver_height, source.directivity,
\* ground_factor)
CalculateGridFast ==
    /\ grid_fast_result' = calculate_grid_fast(source.x, source.y, source.z, source.lw,
                                               bbox, grid_size, receiver_height,
                                               source.directivity, ground_factor_in,
                                               NUMBA_AVAILABLE)
    /\ UNCHANGED <<points, ground_factor_in, batch_result, route_result,
                   NUMBA_AVAILABLE, calc_vars, compliance_vars, grid_vars, term_vars, stats_vars, par_vars, level_vars, api_vars, loader_vars, ws_vars, cache_vars, frame_vars, loop_vars>>

NextBatch == CalculateBatch \/ CalculateRoute \/ CalculateGridFast

SpecBatch == InitBatch /\ [][NextBatch]_vars

\* --- the statistics over a result set ---

InitStats ==
    /\ IdleLoop
    /\ IdleFrame
    /\ IdleCache
    /\ IdleWs
    /\ IdleLoader
    /\ IdleApi
    /\ IdleLevels
    /\ IdleParallel
    /\ spls \in StatListInputs
    /\ api_stats = None /\ fast_stats = None
    /\ NUMBA_AVAILABLE = TRUE
    /\ IdleCompliance /\ IdleCalc /\ IdleGrid /\ IdleTerms /\ IdleBatch

\* the statistics of the /calculate/grid endpoint over spls
ApiStatistics ==
    /\ api_stats' = api_grid_statistics(spls)
    /\ UNCHANGED <<spls, fast_stats, NUMBA_AVAILABLE, calc_vars, compliance_vars,
                   grid_vars, term_vars, batch_vars, par_vars, level_vars, api_vars, loader_vars, ws_vars, cache_vars, frame_vars, loop_vars>>

\* the stats of calculate_grid_fast over a matrix holding spls
FastStatistics ==
    /\ fast_stats' = np_stats(spls)
    /\ UNCHANGED <<spls, api_stats, NUMBA_AVAILABLE, calc_vars, compliance_vars,
                   grid_vars, term_vars, batch_vars, par_vars, level_vars, api_vars, loader_vars, ws_vars, cache_vars, frame_vars, loop_vars>>

NextStats == ApiStatistics \/ FastStatistics

SpecStats == InitStats /\ [][NextStats]_vars

\* --- the prange loops of the JIT kernels ---

\* grid_x and grid_y as calculate_grid_fast hands them to _calculate_grid_parallel
kernel_grid_x == np_arange(bbox.minx, bbox.maxx + grid_size, grid_size)
kernel_grid_y == np_arange(bbox.miny, bbox.maxy + grid_size, grid_size)

\* the number of iterations of the prange loop: ny, or n
prange_n == IF kernel = "grid" THEN Len(kernel_grid_y) ELSE Len(points)

\* the number of passes of the loop inside one iteration: nx for the raster
row_width == IF kernel = "grid" THEN Len(kernel_grid_x) ELSE 1

\* a faulty variant: the iterations share the variables assigned inside the body
prange_shared(i) == 1

\* a variable assigned inside the prange body belongs to one iteration: each
\* iteration has its own
prange_private(i) == i

\* spl as the body of iteration i computes it in pass j
body_spl(i, j) ==
    CASE kernel = "grid" ->
             _calculate_spl_single(source.x, source.y, source.z, source.lw,
                                   source.directivity, kernel_grid_x[j], kernel_grid_y[i],
                                   receiver_height, ground_factor_in, _alpha_a).spl
      [] kernel = "batch" ->
             _calculate_spl_single(source.x, source.y, source.z, source.lw,
                                   source.directivity, points[i].x, points[i].y,
                                   points[i].z, ground_factor_in, _alpha_a).spl
      [] kernel = "route" ->
             _calculate_spl_single(points[i].x, points[i].y, points[i].z, source.lw,
                                   source.directivity, receiver.x, receiver.y,
                                   receiver.z, ground_factor_in, _alpha_a).spl

\* np.zeros((ny, nx)) for the raster, np.zeros(n) otherwise
np_zeros ==
    IF kernel = "grid" THEN [i \in 1..prange_n |-> [j \in 1..row_width |-> 0]]
    ELSE [i \in 1..prange_n |-> 0]

InitParallel ==
    /\ IdleLoop
    /\ IdleFrame
    /\ IdleCache
    /\ IdleWs
    /\ IdleLoader
    /\ IdleApi
    /\ IdleLevels
    /\ source \in {s \in BatchSourceInputs : s.directivity # 0}
    /\ receiver \in TermReceiverInputs
    /\ ground_factor_in \in {5, 10}
    /\ \/ /\ kernel = "grid"
          /\ points = <<>>
          /\ bbox \in ParallelBBoxInputs
          /\ grid_size = 5000 /\ receiver_height = 400
       \/ /\ kernel \in {"batch", "route"}
          /\ points \in PointListInputs
          /\ bbox = None /\ grid_size = 0 /\ receiver_height = 0
    /\ iter_pc = [i \in 1..prange_n |-> [j |-> 1, at |-> "call"]]
    /\ iter_spl = [i \in 1..prange_n |-> 0]
    /\ result_array = np_zeros
    /\ kernel_out = None
    /\ NUMBA_AVAILABLE = TRUE
    /\ batch_result = None /\ route_result = None /\ grid_fast_result = None
    /\ iso_grid = None /\ fast_grid = None
    /\ obstacles = <<>> /\ octave_bands = FALSE
    /\ iso_result = None /\ fast_result = None /\ barrier_result = None
    /\ IdleCompliance /\ IdleTerms /\ IdleStats

\* iteration i reads its input and calls _calculate_spl_single
BodyCall(i) ==
    /\ iter_pc[i].at = "call"
    /\ iter_spl' = [iter_spl EXCEPT ![prange_private(i)] = body_spl(i, iter_pc[i].j)]
    /\ iter_pc' = [iter_pc EXCEPT ![i].at = "store"]
    /\ UNCHANGED <<kernel, result_array, kernel_out, NUMBA_AVAILABLE, calc_vars,
                   compliance_vars, grid_vars, term_vars, batch_vars, stats_vars, level_vars, api_vars, loader_vars, ws_vars, cache_vars, frame_vars, loop_vars>>

\* iteration i stores spl: result[i, j] = spl, result[i] = spl, spl_values[i] = spl
BodyStore(i) ==
    /\ iter_pc[i].at = "store"
    /\ result_array' =
           IF kernel = "grid"
           THEN [result_array EXCEPT ![i][iter_pc[i].j] = iter_spl[prange_private(i)]]
           ELSE [result_array EXCEPT ![i] = iter_spl[prange_private(i)]]
    /\ iter_pc' = [iter_pc EXCEPT ![i] =
                      [j |-> iter_pc[i].j + 1,
                       at |-> IF iter_pc[i].j < row_width THEN "call" ELSE "done"]]
    /\ UNCHANGED <<kernel, iter_spl, kernel_out, NUMBA_AVAILABLE, calc_vars,
                   compliance_vars, grid_vars, term_vars, batch_vars, stats_vars, level_vars, api_vars, loader_vars, ws_vars, cache_vars, frame_vars, loop_vars>>

\* after the prange loop: return result, or the route's (leq, max_spl, spl_values)
KernelReturn ==
    /\ kernel_out = None
    /\ \A i \in DOMAIN iter_pc : iter_pc[i].at = "done"
    /\ kernel_out' = IF kernel = "route" THEN route_levels(result_array, TRUE)
                                         ELSE Return(result_array)
    /\ UNCHANGED <<kernel, iter_pc, iter_spl, result_array, NUMBA_AVAILABLE, calc_vars,
                   compliance_vars, grid_vars, term_vars, batch_vars, stats_vars, level_vars, api_vars, loader_vars, ws_vars, cache_vars, frame_vars, loop_vars>>

NextParallel ==
    \/ \E i \in DOMAIN iter_pc : BodyCall(i)
    \/ \E i \in DOMAIN iter_pc : BodyStore(i)
    \/ KernelReturn

SpecParallel == InitParallel /\ [][NextParallel]_vars

\* --- the energetic mean over a route ---

InitLevels ==
    /\ IdleLoop
    /\ IdleFrame
    /\ IdleCache
    /\ IdleWs
    /\ IdleLoader
    /\ IdleApi
    /\ spl_values_in \in RouteLevelListInputs
    /\ route_summary = None
    /\ NUMBA_AVAILABLE \in BOOLEAN
    /\ IdleCompliance /\ IdleCalc /\ IdleGrid /\ IdleTerms /\ IdleBatch /\ IdleStats
    /\ IdleParallel

\* calculate_route from the filled array spl_values on: the energetic mean and
\* the maximum, in the JIT kernel or in the fallback, and the dict returned
RouteSummary ==
    /\ route_summary' = route_dict(route_levels(spl_values_in, NUMBA_AVAILABLE),
                                   Len(spl_values_in))
    /\ UNCHANGED <<spl_values_in, NUMBA_AVAILABLE, calc_vars, compliance_vars, grid_vars,
                   term_vars, batch_vars, stats_vars, par_vars, api_vars, loader_vars, ws_vars, cache_vars, frame_vars, loop_vars>>

NextLevels == RouteSummary

SpecLevels == InitLevels /\ [][NextLevels]_vars

\* --- the /calculate/grid endpoint ---

InitGridApi ==
    /\ IdleLoop
    /\ IdleFrame
    /\ IdleCache
    /\ IdleWs
    /\ IdleLoader
    /\ grid_request \in GridRequestInputs
    /\ grid_response = None /\ core_calls = <<>>
    /\ NUMBA_AVAILABLE = TRUE
    /\ IdleCompliance /\ IdleCalc /\ IdleGrid /\ IdleTerms /\ IdleBatch /\ IdleStats
    /\ IdleParallel /\ IdleLevels

\* the request is validated and, if valid, handled by the endpoint
PostCalculateGrid ==
    /\ grid_response = None
    /\ grid_response' = post_calculate_grid(grid_request).response
    /\ core_calls' = core_calls \o post_calculate_grid(grid_request).calls
    /\ UNCHANGED <<grid_request, NUMBA_AVAILABLE, calc_vars, compliance_vars, grid_vars,
                   term_vars, batch_vars, stats_vars, par_vars, level_vars, loader_vars, ws_vars, cache_vars, frame_vars, loop_vars>>

NextGridApi == PostCalculateGrid

SpecGridApi == InitGridApi /\ [][NextGridApi]_vars

\* --- NRWDataLoader.load_alkis_data ---

InitLoader ==
    /\ IdleLoop
    /\ IdleFrame
    /\ IdleCache
    /\ IdleWs
    /\ OWSLIB_AVAILABLE \in BOOLEAN /\ REQUESTS_AVAILABLE \in BOOLEAN
    /\ audit_records = <<>> /\ audit_log = <<>> /\ alkis_result = None /\ load_calls = 0
    /\ NUMBA_AVAILABLE = TRUE
    /\ IdleCompliance /\ IdleCalc /\ IdleGrid /\ IdleTerms /\ IdleBatch /\ IdleStats
    /\ IdleParallel /\ IdleLevels /\ IdleApi

\* one call of load_alkis_data; writing the line to the audit file may fail,
\* which _log_audit only logs
LoadAlkisData ==
    /\ load_calls < MaxLoads
    /\ \E outcome \in WfsOutcomes, file_written \in BOOLEAN :
         LET r == load_alkis_data(outcome, OWSLIB_AVAILABLE, REQUESTS_AVAILABLE)
         IN  /\ alkis_result' = Return(r.value)
             /\ audit_records' = audit_records \o r.audit
             /\ audit_log' = IF file_written THEN audit_log \o r.audit ELSE audit_log
    /\ load_calls' = load_calls + 1
    /\ UNCHANGED <<OWSLIB_AVAILABLE, REQUESTS_AVAILABLE, NUMBA_AVAILABLE, calc_vars,
                   compliance_vars, grid_vars, term_vars, batch_vars, stats_vars, par_vars,
                   level_vars, api_vars, ws_vars, cache_vars, frame_vars, loop_vars>>

NextLoader == LoadAlkisData

SpecLoader == InitLoader /\ [][NextLoader]_vars

\* --- the websocket endpoint and the broadcaster ---

InitWs ==
    /\ IdleLoop
    /\ IdleFrame
    /\ IdleCache
    /\ active_connections = {} /\ subscriptions = EmptyDict /\ message_queue = <<>>
    /\ peer = [ws \in Websockets |-> "open"]
    /\ inbox \in ClientScripts
    /\ handler = [ws \in Websockets |-> HandlerAt("accept")]
    /\ broadcaster = NoBroadcaster
    /\ delivered = [ws \in Websockets |-> <<>>]
    /\ audience = <<>> /\ disconnect_calls = {}
    /\ NUMBA_AVAILABLE = TRUE
    /\ IdleCompliance /\ IdleCalc /\ IdleGrid /\ IdleTerms /\ IdleBatch /\ IdleStats
    /\ IdleParallel /\ IdleLevels /\ IdleApi /\ IdleLoader

\* the other components stand still
WsFrame ==
    UNCHANGED <<NUMBA_AVAILABLE, calc_vars, compliance_vars, grid_vars, term_vars,
                batch_vars, stats_vars, par_vars, level_vars, api_vars, loader_vars, cache_vars, frame_vars, loop_vars>>

\* the manager after the step
SetManager(m) == active_connections' = m.active /\ subscriptions' = m.subs

\* the client closes the connection or is lost
ClientLeaves(ws) ==
    /\ peer[ws] = "open"
    /\ peer' = [peer EXCEPT ![ws] = "gone"]
    /\ disconnect_calls' = {}
    /\ UNCHANGED <<active_connections, subscriptions, message_queue, inbox, handler,
                   broadcaster, delivered, audience, cache_vars, frame_vars, loop_vars>>
    /\ WsFrame

\* websocket_drone_position up to its first receive_text: manager.connect and
\* start_broadcaster; accept raises if the client is gone, outside the try
Connect(ws) ==
    /\ handler[ws].pc = "accept"
    /\ IF peer[ws] = "open"
       THEN /\ active_connections' = active_connections \cup {ws}
            /\ handler' = [handler EXCEPT ![ws] = HandlerAt("receive")]
            /\ broadcaster' = IF broadcaster.pc = "none"
                              THEN [broadcaster EXCEPT !.pc = "get"] ELSE broadcaster
       ELSE /\ handler' = [handler EXCEPT ![ws] = HandlerAt("closed")]
            /\ UNCHANGED <<active_connections, broadcaster, cache_vars, frame_vars, loop_vars>>
    /\ disconnect_calls' = {}
    /\ UNCHANGED <<subscriptions, message_queue, peer, inbox, delivered, audience, cache_vars, frame_vars, loop_vars>>
    /\ WsFrame

\* receive_text returns a subscribe request: handle_subscribe up to its send_text
ReceiveSubscribe(ws) ==
    /\ handler[ws].pc = "receive" /\ inbox[ws] # <<>>
    /\ Head(inbox[ws]).type = "subscribe"
    /\ subscriptions' = subscribe(subscriptions, ws, Head(inbox[ws]).droneId)
    /\ handler' = [handler EXCEPT ![ws] = HandlerAt("reply")]
    /\ inbox' = [inbox EXCEPT ![ws] = Tail(@)]
    /\ disconnect_calls' = {}
    /\ UNCHANGED <<active_connections, message_queue, peer, broadcaster, delivered, audience, cache_vars, frame_vars, loop_vars>>
    /\ WsFrame

\* receive_text returns an unsubscribe request: handle_unsubscribe up to its send_text
ReceiveUnsubscribe(ws) ==
    /\ handler[ws].pc = "receive" /\ inbox[ws] # <<>>
    /\ Head(inbox[ws]).type = "unsubscribe"
    /\ subscriptions' = unsubscribe(subscriptions, ws, Head(inbox[ws]).droneId)
    /\ handler' = [handler EXCEPT ![ws] = HandlerAt("reply")]
    /\ inbox' = [inbox EXCEPT ![ws] = Tail(@)]
    /\ disconnect_calls' = {}
    /\ UNCHANGED <<active_connections, message_queue, peer, broadcaster, delivered, audience, cache_vars, frame_vars, loop_vars>>
    /\ WsFrame

\* receive_text returns a drone position: handle_drone_position queues the
\* message and enters send_to_subscribers, up to its first send_text; without
\* subscribers send_to_subscribers returns and the handler waits for the next text
ReceivePosition(ws) ==
    /\ handler[ws].pc = "receive" /\ inbox[ws] # <<>>
    /\ Head(inbox[ws]).type = "drone-position"
    /\ LET message == Len(audience) + 1
           subscribers == subscribers_of(subscriptions, Head(inbox[ws]).droneId)
       IN  /\ message_queue' = Append(message_queue, message)
           /\ audience' = Append(audience, active_connections)
           /\ handler' = [handler EXCEPT ![ws] =
                              IF subscribers = {} THEN HandlerAt("receive")
                              ELSE [pc |-> "fanout", message |-> message,
                                    subscribers |-> subscribers, disconnected |-> {}]]
    /\ inbox' = [inbox EXCEPT ![ws] = Tail(@)]
    /\ disconnect_calls' = {}
    /\ UNCHANGED <<active_connections, subscriptions, peer, broadcaster, delivered, cache_vars, frame_vars, loop_vars>>
    /\ WsFrame

\* receive_text raises WebSocketDisconnect: manager.disconnect, the handler ends
ReceiveDisconnect(ws) ==
    /\ handler[ws].pc = "receive" /\ inbox[ws] = <<>> /\ peer[ws] = "gone"
    /\ SetManager(disconnect(Manager(active_connections, subscriptions), ws))
    /\ handler' = [handler EXCEPT ![ws] = HandlerAt("closed")]
    /\ disconnect_calls' = {ws}
    /\ UNCHANGED <<message_queue, peer, inbox, broadcaster, delivered, audience, cache_vars, frame_vars, loop_vars>>
    /\ WsFrame

\* the send_text of handle_subscribe or handle_unsubscribe ends: back to
\* receive_text, or the exception ends the handler through manager.disconnect
Reply(ws) ==
    /\ handler[ws].pc = "reply"
    /\ IF peer[ws] = "open"
       THEN /\ handler' = [handler EXCEPT ![ws] = HandlerAt("receive")]
            /\ disconnect_calls' = {}
            /\ UNCHANGED <<active_connections, subscriptions, cache_vars, frame_vars, loop_vars>>
       ELSE /\ SetManager(disconnect(Manager(active_connections, subscriptions), ws))
            /\ handler' = [handler EXCEPT ![ws] = HandlerAt("closed")]
            /\ disconnect_calls' = {ws}
    /\ UNCHANGED <<message_queue, peer, inbox, broadcaster, delivered, audience, cache_vars, frame_vars, loop_vars>>
    /\ WsFrame

\* one send_text of send_to_subscribers ends; after the last one the failed
\* websockets are disconnected and the handler waits for the next text
SubscriberSend(ws) ==
    /\ handler[ws].pc = "fanout"
    /\ \E target \in handler[ws].subscribers :
         LET sent == peer[target] = "open"
             failed == handler[ws].disconnected \cup (IF sent THEN {} ELSE {target})
             rest == handler[ws].subscribers \ {target}
         IN  /\ delivered' = IF sent
                              THEN [delivered EXCEPT ![target] = Append(@, handler[ws].message)]
                              ELSE delivered
             /\ IF rest = {}
                THEN /\ SetManager(disconnect_each(
                                       Manager(active_connections, subscriptions), failed))
                     /\ handler' = [handler EXCEPT ![ws] = HandlerAt("receive")]
                     /\ disconnect_calls' = failed
                ELSE /\ handler' = [handler EXCEPT ![ws].subscribers = rest,
                                                    ![ws].disconnected = failed]
                     /\ disconnect_calls' = {}
                     /\ UNCHANGED <<active_connections, subscriptions, cache_vars, frame_vars, loop_vars>>
    /\ UNCHANGED <<message_queue, peer, inbox, broadcaster, audience, cache_vars, frame_vars, loop_vars>>
    /\ WsFrame

\* message_queue.get returns: broadcast takes its copy of active_connections,
\* up to its first send_text; without connections broadcast returns
BroadcastStart ==
    /\ broadcaster.pc = "get" /\ message_queue # <<>>
    /\ message_queue' = Tail(message_queue)
    /\ broadcaster' = [pc |-> IF active_connections = {} THEN "get" ELSE "send",
                       message |-> Head(message_queue),
                       connections |-> active_connections, disconnected |-> {},
                       snapshot |-> active_connections, attempted |-> {}]
    /\ disconnect_calls' = {}
    /\ UNCHANGED <<active_connections, subscriptions, peer, inbox, handler, delivered,
                   audience, cache_vars, frame_vars, loop_vars>>
    /\ WsFrame

\* one send_text of broadcast ends; after the last one the failed connections
\* are disconnected, broadcast returns and the task waits for the next message
BroadcastSend ==
    /\ broadcaster.pc = "send"
    /\ \E connection \in broadcaster.connections :
         LET sent == peer[connection] = "open"
             failed == broadcaster.disconnected \cup (IF sent THEN {} ELSE {connection})
             rest == connections_left(broadcaster.connections \ {connection}, sent)
         IN  /\ delivered' = IF sent
                              THEN [delivered EXCEPT ![connection] =
                                                         Append(@, broadcaster.message)]
                              ELSE delivered
             /\ broadcaster' = [broadcaster EXCEPT
                                   !.pc = IF rest = {} THEN "get" ELSE "send",
                                   !.connections = rest, !.disconnected = failed,
                                   !.attempted = @ \cup {connection}]
             /\ IF rest = {}
                THEN /\ SetManager(disconnect_each(
                                       Manager(active_connections, subscriptions), failed))
                     /\ disconnect_calls' = failed
                ELSE /\ disconnect_calls' = {}
                     /\ UNCHANGED <<active_connections, subscriptions, cache_vars, frame_vars, loop_vars>>
    /\ UNCHANGED <<message_queue, peer, inbox, handler, audience, cache_vars, frame_vars, loop_vars>>
    /\ WsFrame

NextWs ==
    \/ \E ws \in Websockets :
          \/ ClientLeaves(ws) \/ Connect(ws)
          \/ ReceiveSubscribe(ws) \/ ReceiveUnsubscribe(ws) \/ ReceivePosition(ws)
          \/ ReceiveDisconnect(ws) \/ Reply(ws) \/ SubscriberSend(ws)
    \/ BroadcastStart \/ BroadcastSend

SpecWs == InitWs /\ [][NextWs]_vars

\* --- GeodataService ---

InitCache ==
    /\ IdleLoop
    /\ IdleFrame
    /\ _cache = [k \in {} |-> 0] /\ _nrw_loader \in {"None", "NRWDataLoader"}
    /\ now = 0 /\ clock_ticks = 0
    /\ loader_invocations = 0 /\ service_calls = <<>> /\ service_result = None
    /\ NUMBA_AVAILABLE = TRUE
    /\ IdleCompliance /\ IdleCalc /\ IdleGrid /\ IdleTerms /\ IdleBatch /\ IdleStats
    /\ IdleParallel /\ IdleLevels /\ IdleApi /\ IdleLoader /\ IdleWs

\* time passes
Tick ==
    /\ clock_ticks < MaxTicks
    /\ \E seconds \in ClockSteps : now' = now + seconds
    /\ clock_ticks' = clock_ticks + 1
    /\ UNCHANGED <<_cache, _nrw_loader, loader_invocations, service_calls, service_result,
                   NUMBA_AVAILABLE, calc_vars, compliance_vars, grid_vars, term_vars,
                   batch_vars, stats_vars, par_vars, level_vars, api_vars, loader_vars,
                   ws_vars, frame_vars, loop_vars>>

\* one call of get_parcels or get_ambient_noise
GetFromService ==
    /\ Len(service_calls) < MaxServiceCalls
    /\ \E key \in CacheKeys, outcome \in LoaderOutcomes :
         LET r == get_from_service(_cache, _nrw_loader, key, now, outcome)
         IN  /\ service_result' = Return(r.result)
             /\ _cache' = r.cache
             /\ loader_invocations' = loader_invocations + r.invoked
             /\ service_calls' = Append(service_calls, key)
    /\ UNCHANGED <<_nrw_loader, now, clock_ticks,
                   NUMBA_AVAILABLE, calc_vars, compliance_vars, grid_vars, term_vars,
                   batch_vars, stats_vars, par_vars, level_vars, api_vars, loader_vars,
                   ws_vars, frame_vars, loop_vars>>

NextCache == Tick \/ GetFromService

SpecCache == InitCache /\ [][NextCache]_vars

\* --- repeated calls on the same objects ---

InitFrame ==
    /\ IdleLoop
    /\ source \in {s \in SourceInputs : s.z \in {200, 5000} /\ s.directivity = 0
                                        /\ s.frequency_spectrum # Spectrum(<<>>)}
    /\ receiver \in {r \in ReceiverInputs : r.x = 10000 /\ r.ground_type = "mixed"}
    /\ obstacles \in CalcObstacleListInputs
    /\ octave_bands \in BOOLEAN
    /\ iso_result = None /\ fast_result = None /\ barrier_result = None
    /\ spl = 55020 /\ zone_type \in {"mischgebiet", "Unknown_Zone"} /\ verdict = NoVerdict
    /\ bbox = [minx |-> 0, miny |-> 0, maxx |-> 5000, maxy |-> 5000]
    /\ grid_size = 5000 /\ receiver_height = 400
    /\ iso_grid = None /\ fast_grid = None
    /\ calc_weather = WeatherConditions
    /\ class_tables = [ATMO_ABSORPTION |-> ATMO_ABSORPTION, LIMITS |-> LIMITS]
    /\ call_log = <<>>
    /\ NUMBA_AVAILABLE = TRUE
    /\ IdleTerms /\ IdleBatch /\ IdleStats /\ IdleParallel /\ IdleLevels /\ IdleApi
    /\ IdleLoader /\ IdleWs /\ IdleCache

\* the objects as they are
ObjectsNow == Objects(source, receiver, obstacles, calc_weather, class_tables)

\* the objects after the step
SetObjects(objects) ==
    /\ source' = objects.source /\ receiver' = objects.receiver
    /\ obstacles' = objects.obstacles /\ calc_weather' = objects.weather
    /\ class_tables' = objects.tables

\* what no call assigns to
FrameRest ==
    UNCHANGED <<octave_bands, iso_result, fast_result, barrier_result, compliance_vars,
                grid_vars, NUMBA_AVAILABLE, term_vars, batch_vars, stats_vars, par_vars,
                level_vars, api_vars, loader_vars, ws_vars, cache_vars, loop_vars>>

\* calculator.calculate(source, receiver, obstacles, octave_bands)
CallCalculate ==
    /\ Len(call_log) < MaxFrameCalls
    /\ call_log' = Append(call_log, [call |-> "calculate",
                                     result |-> calculate(source, receiver, obstacles,
                                                          octave_bands)])
    /\ SetObjects(after_calculate(ObjectsNow))
    /\ FrameRest

\* calculator.calculate_grid(source, bbox, grid_size, receiver_height)
CallCalculateGrid ==
    /\ Len(call_log) < MaxFrameCalls
    /\ call_log' = Append(call_log, [call |-> "calculate_grid",
                                     result |-> iso_calculate_grid(source, bbox, grid_size,
                                                                   receiver_height)])
    /\ SetObjects(after_calculate_grid(ObjectsNow))
    /\ FrameRest

\* TALaermChecker.check_compliance(spl, zone_type, is_night)
CallCheckCompliance(is_night) ==
    /\ Len(call_log) < MaxFrameCalls
    /\ call_log' = Append(call_log,
                          [call |-> IF is_night THEN "check_compliance_night"
                                    ELSE "check_compliance",
                           result |-> check_compliance(spl, zone_type, is_night)])
    /\ SetObjects(after_check_compliance(ObjectsNow))
    /\ FrameRest

NextFrame ==
    \/ CallCalculate \/ CallCalculateGrid
    \/ \E is_night \in BOOLEAN : CallCheckCompliance(is_night)

SpecFrame == InitFrame /\ [][NextFrame]_vars

\* --- ISO9613Calculator.calculate_grid, statement by statement ---

InitLoop ==
    /\ loop_bbox \in LoopBBoxInputs
    /\ loop_step \in {float_of_int(g) : g \in LoopGridSizeInputs}
    /\ loop_pc = "outer" /\ loop_x = loop_bbox.minx /\ loop_y = loop_bbox.miny
    /\ visits = [p \in {} |-> 0]
    /\ NUMBA_AVAILABLE = TRUE
    /\ IdleCompliance /\ IdleCalc /\ IdleGrid /\ IdleTerms /\ IdleBatch /\ IdleStats
    /\ IdleParallel /\ IdleLevels /\ IdleApi /\ IdleLoader /\ IdleWs /\ IdleCache
    /\ IdleFrame

LoopFrame ==
    UNCHANGED <<loop_bbox, loop_step, NUMBA_AVAILABLE, calc_vars, compliance_vars,
                grid_vars, term_vars, batch_vars, stats_vars, par_vars, level_vars,
                api_vars, loader_vars, ws_vars, cache_vars, frame_vars>>

\* while x <= maxx: y = miny, or the return
OuterTest ==
    /\ loop_pc = "outer"
    /\ IF float_le(loop_x, loop_bbox.maxx)
       THEN loop_pc' = "inner" /\ loop_y' = loop_bbox.miny
       ELSE loop_pc' = "done" /\ loop_y' = loop_y
    /\ UNCHANGED <<loop_x, visits>>
    /\ LoopFrame

\* while y <= maxy: into the body, or x += grid_size
InnerTest ==
    /\ loop_pc = "inner"
    /\ IF float_le(loop_y, loop_bbox.maxy)
       THEN loop_pc' = "body" /\ loop_x' = loop_x
       ELSE loop_pc' = "outer" /\ loop_x' = float_sums[loop_x, loop_step]
    /\ UNCHANGED <<loop_y, visits>>
    /\ LoopFrame

\* results.append for the point (x, y); y += grid_size
Body ==
    /\ loop_pc = "body"
    /\ LET point == <<loop_x, loop_y>>
           seen == IF point \in DOMAIN visits THEN visits[point] ELSE 0
       IN  visits' = [p \in DOMAIN visits \cup {point} |->
                         IF p = point THEN min(seen + 1, MaxVisits) ELSE visits[p]]
    /\ loop_y' = float_sums[loop_y, loop_step]
    /\ loop_pc' = "inner"
    /\ UNCHANGED loop_x
    /\ LoopFrame

NextLoop == OuterTest \/ InnerTest \/ Body

\* the call keeps running until it returns
SpecLoop == InitLoop /\ [][NextLoop]_vars /\ WF_vars(NextLoop)

(***************************************************************************)
(* Properties                                                              *)
(***************************************************************************)

IsResult(r) == "total_attenuation" \in DOMAIN r
Returned(r) == "value" \in DOMAIN r
CalcResults == {r \in {iso_result, fast_result} : IsResult(r)}
Verdicts == {verdict[n] : n \in {b \in BOOLEAN : verdict[b] # None}}

\* C1: in every result returned by ISO9613Calculator.calculate and by
\* FastISO9613Calculator.calculate, total_attenuation is the sum of the five
\* components a_div, a_atm, a_gr, a_bar and a_misc.
T_C1_TotalIsSumOfComponents ==
    \A r \in CalcResults :
        r.total_attenuation = r.a_div + r.a_atm + r.a_gr + r.a_bar + r.a_misc

\* both calculators have returned, for a call with obstacles that shield, a
\* ground effect, and the octave-band path taken
W_C1_BothReturnedAllComponents ==
    /\ IsResult(iso_result) /\ IsResult(fast_result)
    /\ iso_result.a_bar > 0 /\ iso_result.a_gr > 0 /\ fast_result.a_gr > 0
    /\ octave_bands /\ truthy(source.frequency_spectrum)

\* C2: in every result returned by calculate, sound_pressure_level is
\* source.lw + source.directivity - total_attenuation, whatever the directivity.
T_C2_SplIsLwPlusDcMinusTotal ==
    \A r \in CalcResults :
        r.sound_pressure_level = source.lw + source.directivity - r.total_attenuation

\* both calculators have returned for a source with a directivity other than 0
W_C2_NonzeroDirectivity ==
    /\ IsResult(iso_result) /\ IsResult(fast_result)
    /\ source.directivity # 0

\* C3 as stated: the returned margin is limit - level and compliant is
\* (returned margin >= 0); at the limit compliant with margin 0, above it not.
CE_C3_ReturnedMarginExact ==
    \A v \in Verdicts :
        /\ v.margin_db = v.limit * 1000 - spl
        /\ v.compliant = (v.margin_db >= 0)
        /\ (spl = v.limit * 1000 => v.compliant /\ v.margin_db = 0)
        /\ (spl > v.limit * 1000 => ~v.compliant)

\* C3 as amended: the returned margin_db is limit - level rounded to one decimal,
\* and compliant is decided on the unrounded difference (limit - level >= 0); a
\* level exactly at the limit is compliant with margin 0 and any level above the
\* limit is not compliant.
T_C3_MarginRoundedCompliantExact ==
    \A v \in Verdicts :
        LET exact == v.limit * 1000 - spl
        IN  /\ v.margin_db % 100 = 0
            /\ v.margin_db - exact <= 50 /\ exact - v.margin_db <= 50
            /\ v.compliant = (exact >= 0)
            /\ (spl = v.limit * 1000 => v.compliant /\ v.margin_db = 0)
            /\ (spl > v.limit * 1000 => ~v.compliant)

\* a level just above the limit: not compliant, while the returned margin is 0
W_C3_AboveLimitMarginZero ==
    \E v \in Verdicts : spl > v.limit * 1000 /\ v.margin_db = 0 /\ ~v.compliant

\* the table of the claim, zone -> <<day, night>>
ClaimedLimit(zone) ==
    CASE zone = "industriegebiet"        -> <<70, 70>>
      [] zone = "gewerbegebiet"          -> <<65, 50>>
      [] zone = "kerngebiet"             -> <<60, 45>>
      [] zone = "mischgebiet"            -> <<60, 45>>
      [] zone = "allgemeines_wohngebiet" -> <<55, 40>>
      [] zone = "reines_wohngebiet"      -> <<50, 35>>
      [] zone = "kurgebiet"              -> <<45, 35>>
      [] zone = "krankenhaus"            -> <<45, 35>>

\* C4: for each of the eight zone identifiers check_compliance uses the fixed
\* TA Laerm value, the night value when is_night and the day value otherwise.
T_C4_LimitTable ==
    \A n \in BOOLEAN :
        (verdict[n] # None /\ zone_type \in KnownZones)
            => verdict[n].limit = ClaimedLimit(zone_type)[IF n THEN 2 ELSE 1]

\* a night check in the spa zone and a day check of the same call pair
W_C4_KurgebietBothPeriods ==
    /\ zone_type = "kurgebiet"
    /\ verdict[TRUE] # None /\ verdict[TRUE].limit = 35
    /\ verdict[FALSE] # None /\ verdict[FALSE].limit = 45

\* C5 as stated: every zone string that is not one of the eight identifiers
\* is given the Mixed-zone limits 60 / 45.
CE_C5_EveryOtherStringIsMixed ==
    \A n \in BOOLEAN :
        (verdict[n] # None /\ zone_type \notin KnownZones)
            => verdict[n].limit = (IF n THEN 45 ELSE 60)

\* C5 as amended: every zone string whose lower-case form is not one of the
\* eight identifiers is given the Mixed-zone limits 60 / 45 (a string that
\* differs from an identifier only in letter case is given that zone's limits).
T_C5_UnknownZoneIsMixed ==
    \A n \in BOOLEAN :
        verdict[n] # None =>
            IF lower(zone_type) \in KnownZones
            THEN verdict[n].limit = ClaimedLimit(lower(zone_type))[IF n THEN 2 ELSE 1]
            ELSE verdict[n].limit = (IF n THEN 45 ELSE 60)

\* an unknown zone checked by night and by day
W_C5_UnknownZoneChecked ==
    /\ zone_type = "nonexistent_zone"
    /\ verdict[TRUE] # None /\ verdict[TRUE].limit = 45
    /\ verdict[FALSE] # None /\ verdict[FALSE].limit = 60

\* C6 as stated: the label is "COMPLIANT" exactly when compliant and
\* "EXCEEDANCE" exactly when not.
CE_C6_EnglishLabels ==
    \A v \in Verdicts :
        /\ v.status \in {"COMPLIANT", "EXCEEDANCE"}
        /\ (v.status = "COMPLIANT") = v.compliant

\* C6 as amended: the label is two-valued, "KONFORM" exactly when compliant is
\* true and "ÜBERSCHREITUNG" exactly when it is false.
T_C6_StatusTwoValued ==
    \A v \in Verdicts :
        /\ v.status \in {"KONFORM", "ÜBERSCHREITUNG"}
        /\ (v.status = "KONFORM") = v.compliant

\* the same level compliant by day and an exceedance by night
W_C6_BothLabels ==
    /\ verdict[FALSE] # None /\ verdict[FALSE].status = "KONFORM"
    /\ verdict[TRUE] # None /\ verdict[TRUE].status = "ÜBERSCHREITUNG"

\* C7: for the same level and zone (known or unknown), compliant by night
\* implies compliant by day.
T_C7_NightCompliantImpliesDay ==
    (verdict[TRUE] # None /\ verdict[FALSE] # None /\ verdict[TRUE].compliant)
        => verdict[FALSE].compliant

\* a level compliant by night under a night limit below the day limit
W_C7_NightCompliant ==
    /\ verdict[TRUE] # None /\ verdict[FALSE] # None
    /\ verdict[TRUE].compliant /\ verdict[FALSE].compliant
    /\ verdict[TRUE].limit < verdict[FALSE].limit

\* ceil(extent / step + 1), the count of the claim, for whole extent and step
CeilCount(extent, step) == (extent + step + step - 1) \div step

CE_C9_LatticeWithinBBox ==
    \A g \in {r \in {iso_grid, fast_grid} : Returned(r)} :
        LET pts == {<<g.value[i].x, g.value[i].y>> : i \in 1..Len(g.value)}
            xs == {p[1] : p \in pts}
            ys == {p[2] : p \in pts}
        IN  /\ \A p \in pts : /\ bbox.minx <= p[1] /\ p[1] <= bbox.maxx
                               /\ bbox.miny <= p[2] /\ p[2] <= bbox.maxy
            /\ <<bbox.minx, bbox.miny>> \in pts
            /\ pts = xs \X ys
            /\ \A x \in xs : x = bbox.minx \/ x - grid_size \in xs
            /\ \A y \in ys : y = bbox.miny \/ y - grid_size \in ys
            /\ (bbox.maxx - bbox.minx) % grid_size = 0 => bbox.maxx \in xs
            /\ (bbox.maxy - bbox.miny) % grid_size = 0 => bbox.maxy \in ys

\* the Maekawa terms of the obstacles handed to calculate whose path-length
\* difference is positive
PositiveDz ==
    {b.dz : b \in {p \in {_barrier_dz(source, receiver, obstacles[i]) :
                               i \in 1..Len(obstacles)} : p.delta > 0}}

Reorderings(q) ==
    {[i \in 1..Len(q) |-> q[f[i]]] :
        f \in {h \in [1..Len(q) -> 1..Len(q)] :
                  \A i, j \in 1..Len(q) : h[i] = h[j] => i = j}}

\* C10: the value of ISO9613Calculator._barrier_attenuation is the largest Dz,
\* capped at 25 dB, among the obstacles with a positive path-length difference,
\* and 0 when there is none; it lies in 0..25 dB, is never a sum, and is the
\* same for every order of the obstacle list.
T_C10_BarrierIsCappedMaximum ==
    Returned(barrier_result) =>
        /\ barrier_result.value =
               (IF PositiveDz = {} THEN 0
                ELSE CHOOSE m \in PositiveDz : \A v \in PositiveDz : v <= m)
        /\ 0 <= barrier_result.value /\ barrier_result.value <= 25000
        /\ \A q \in Reorderings(obstacles) :
               _barrier_attenuation(source, receiver, q) = barrier_result.value

\* two different obstacles that both shield, the result below the cap
W_C10_TwoObstaclesBelowCap ==
    /\ Returned(barrier_result) /\ Len(obstacles) = 2
    /\ \A i \in 1..2 : _barrier_dz(source, receiver, obstacles[i]).delta > 0
    /\ _barrier_dz(source, receiver, obstacles[1]).dz
           < _barrier_dz(source, receiver, obstacles[2]).dz
    /\ barrier_result.value > 0 /\ barrier_result.value < 25000

TermFunctions == {"_geometric_divergence", "_geometric_divergence_jit"}
GroundFunctions == {"_ground_effect", "_ground_effect_jit"}

\* C11: _geometric_divergence and _geometric_divergence_jit return Adiv(1 m) =
\* 11.0 dB for every distance of at most 1 m, zero and negative ones included.
T_C11_DivergenceClampedBelowOneMetre ==
    \A f \in TermFunctions :
        (Returned(a_div_results[f]) /\ distance_in <= 100) =>
            a_div_results[f].value = 11000

\* both functions have returned for a distance that is zero or negative
W_C11_NonPositiveDistance ==
    /\ distance_in <= 0
    /\ \A f \in TermFunctions : Returned(a_div_results[f])

\* the ground factor G of a ground type, in tenths
GroundFactor(g) == CASE g = "hard" -> 0 [] g = "mixed" -> 5 [] g = "soft" -> 10

\* C12: for the same source, receiver position and distance, the ground effects
\* returned for the three ground types are ordered Hard <= Mixed <= Soft; each is
\* at least 0 and at most 10 dB times the ground factor, and 0 for hard ground.
T_C12_GroundEffectOrdered ==
    \A f \in GroundFunctions :
        LET out == a_gr_results[f]
        IN  /\ \A g \in AllGroundTypes :
                   Returned(out[g]) =>
                       /\ 0 <= out[g].value
                       /\ out[g].value <= 1000 * GroundFactor(g)
            /\ \A g, h \in AllGroundTypes :
                   (Returned(out[g]) /\ Returned(out[h])
                        /\ GroundFactor(g) <= GroundFactor(h)) =>
                       out[g].value <= out[h].value

\* both functions have returned for all three ground types, with a ground effect
\* that is positive on mixed ground and larger on soft ground
W_C12_ThreeGroundTypes ==
    \A f \in GroundFunctions :
        /\ \A g \in AllGroundTypes : Returned(a_gr_results[f][g])
        /\ 0 < a_gr_results[f]["mixed"].value
        /\ a_gr_results[f]["mixed"].value < a_gr_results[f]["soft"].value

\* C13 as stated: when the height difference exceeds the (positive) distance handed in
\* (dp squared < 0) the ground effect is 0 and nothing is raised, and a projected
\* distance dp below 1 m gives 0, in _ground_effect and _ground_effect_jit.
CE_C13_DegenerateGeometryGivesZero ==
    LET dh == source.z - receiver.z
        dp_sq == distance_in * distance_in - dh * dh
    IN  \A f \in GroundFunctions : \A g \in AllGroundTypes :
            (a_gr_results[f][g] # None /\ distance_in > 0 /\ dp_sq < 100 * 100) =>
                a_gr_results[f][g] = Return(0)

\* C14: ISO9613Calculator.calculate returns a numeric result whatever the
\* advisory conditions; its notes hold the near-field warning exactly when the
\* distance is below 1 m and the elevated-source note exactly when the source is
\* above 100 m, neither of them at exactly 1 m or exactly 100 m.
T_C14_NotesExactlyWhenAdvisory ==
    iso_result # None =>
        /\ IsResult(iso_result)
        /\ LET notes == {iso_result.notes[i] : i \in 1..Len(iso_result.notes)}
               dx == receiver.x - source.x
               dy == receiver.y - source.y
               dz == receiver.z - source.z
           IN  /\ NOTE_NEAR_FIELD \in notes <=> dx * dx + dy * dy + dz * dz < 100 * 100
               /\ NOTE_HIGH_SOURCE \in notes <=> source.z > 10000
               /\ notes \subseteq {NOTE_NEAR_FIELD, NOTE_HIGH_SOURCE}
               /\ Len(iso_result.notes) = Cardinality(notes)
               /\ iso_result.sound_pressure_level
                      = source.lw + source.directivity - iso_result.total_attenuation

\* calculate has returned both notes for a source above 100 m with the receiver
\* less than 1 m away
W_C14_BothNotes ==
    /\ IsResult(iso_result)
    /\ iso_result.notes = <<NOTE_NEAR_FIELD, NOTE_HIGH_SOURCE>>

\* C17 as stated: for the same source, receiver, obstacle list and octave_bands
\* flag, FastISO9613Calculator.calculate and ISO9613Calculator.calculate return
\* the same a_div, a_atm, a_gr, a_bar, total attenuation, sound pressure level
\* and notes.
CE_C17_FastCalculateSameAsIso ==
    (IsResult(iso_result) /\ IsResult(fast_result)) =>
        /\ fast_result.a_div = iso_result.a_div
        /\ fast_result.a_atm = iso_result.a_atm
        /\ fast_result.a_gr = iso_result.a_gr
        /\ fast_result.a_bar = iso_result.a_bar
        /\ fast_result.total_attenuation = iso_result.total_attenuation
        /\ fast_result.sound_pressure_level = iso_result.sound_pressure_level
        /\ fast_result.notes = iso_result.notes

\* C18 as stated: for the same source, bbox, grid_size and receiver height,
\* FastISO9613Calculator.calculate_grid returns what
\* ISO9613Calculator.calculate_grid returns: as many points, the same (x, y) in
\* the same order, the same rounded spl_dba and distance_m at each point.
CE_C18_FastGridSameAsIso ==
    (Returned(iso_grid) /\ Returned(fast_grid)) =>
        /\ Len(fast_grid.value) = Len(iso_grid.value)
        /\ \A k \in 1..Len(iso_grid.value) :
               /\ fast_grid.value[k].x = iso_grid.value[k].x
               /\ fast_grid.value[k].y = iso_grid.value[k].y
               /\ fast_grid.value[k].spl_dba = iso_grid.value[k].spl_dba
               /\ fast_grid.value[k].distance_m = iso_grid.value[k].distance_m

\* C15 as stated: the statistics over an empty result set, a route with no points
\* or a grid with no points, are returned as a defined value; nothing is raised.
CE_C15_EmptyResultSetGivesValue ==
    /\ (route_result # None /\ points = <<>>) => Returned(route_result)
    /\ (grid_fast_result # None /\ bbox.maxx + grid_size <= bbox.minx) =>
           Returned(grid_fast_result)

\* C16 as stated: calculate_grid_fast, calculate_batch and calculate_route return
\* the same levels whether NUMBA_AVAILABLE is true or false.
CE_C16_JitAndFallbackAgree ==
    /\ batch_result # None =>
           batch_result.value
               = calculate_batch(source.x, source.y, source.z, source.lw, points,
                                 source.directivity, ground_factor_in, ~NUMBA_AVAILABLE)
    /\ Returned(route_result) =>
           route_result
               = calculate_route(source.lw, points, receiver.x, receiver.y, receiver.z,
                                 source.directivity, ground_factor_in, ~NUMBA_AVAILABLE)
    /\ Returned(grid_fast_result) =>
           grid_fast_result.value.spl_matrix
               = calculate_grid_fast(source.x, source.y, source.z, source.lw, bbox,
                                     grid_size, receiver_height, source.directivity,
                                     ground_factor_in, ~NUMBA_AVAILABLE).value.spl_matrix

\* the statistics kept while the levels arrive one at a time: a running minimum,
\* maximum, sum and count, the mean taken from the last two
RECURSIVE RunningStats(_, _)
RunningStats(levels, k) ==
    IF k = 1
    THEN [lo |-> levels[1], hi |-> levels[1], total |-> float_of_level(levels[1]), n |-> 1]
    ELSE LET prev == RunningStats(levels, k - 1)
         IN  [lo |-> min(prev.lo, levels[k]), hi |-> max(prev.hi, levels[k]),
              total |-> float_add(prev.total, float_of_level(levels[k])), n |-> prev.n + 1]

IncrementalStats(levels) ==
    LET run == RunningStats(levels, Len(levels))
    IN  [min_spl_dba |-> run.lo, max_spl_dba |-> run.hi,
         avg_spl_dba |-> float_div_int(run.total, run.n)]

\* C19 as stated: the minimum, maximum and mean of a result set are the same for
\* every order in which its points are listed, and the statistics kept
\* incrementally while the points arrive equal those of one final pass.
CE_C19_StatisticsOrderIndependent ==
    /\ (api_stats # None /\ spls # <<>>) =>
           \A q \in Reorderings(spls) :
               /\ api_grid_statistics(q) = api_stats
               /\ IncrementalStats(q) = api_stats
    /\ Returned(fast_stats) =>
           \A q \in Reorderings(spls) : np_stats(q) = fast_stats

\* the entry of the kernel's array for input point i (column j of the raster)
SlotValue(i, j) == IF kernel = "grid" THEN result_array[i][j] ELSE result_array[i]

\* the kernel's loops run one after the other
SequentialOutput ==
    CASE kernel = "grid" ->
             Return(spl_matrix_of(source.x, source.y, source.z, source.lw,
                                  source.directivity, kernel_grid_x, kernel_grid_y,
                                  receiver_height, ground_factor_in, TRUE))
      [] kernel = "batch" ->
             Return(_calculate_batch_receivers(source.x, source.y, source.z, source.lw,
                                               source.directivity, points,
                                               ground_factor_in, _alpha_a))
      [] kernel = "route" ->
             _calculate_route_noise(source.lw, source.directivity, points, receiver.x,
                                    receiver.y, receiver.z, ground_factor_in, _alpha_a)

SlotsHoldOwnResult ==
    /\ Len(result_array) = prange_n
    /\ \A i \in 1..prange_n : \A j \in 1..row_width :
           SlotValue(i, j) = IF iter_pc[i].j > j THEN body_spl(i, j) ELSE 0
    /\ kernel_out # None => kernel_out = SequentialOutput

OnlyOwnSlotWritten ==
    \A i \in 1..prange_n : \A j \in 1..row_width :
        SlotValue(i, j)' # SlotValue(i, j) =>
            /\ iter_pc[i] = [j |-> j, at |-> "store"]
            /\ iter_pc'[i] # iter_pc[i]

\* C20: under every interleaving of the prange iterations of the three kernels,
\* a step changes no entry of the array but the one of the iteration that takes
\* it; the array has one entry per input point, which is zero until its iteration
\* has stored it and the single-point result of that point afterwards; and what
\* the kernel returns is what its loops return run one after the other.
T_C20_ParallelEvaluationRaceFree == []SlotsHoldOwnResult /\ [][OnlyOwnSlotWritten]_vars

\* a later iteration has finished while an earlier one has called
\* _calculate_spl_single and not yet stored its spl
W_C20_IterationsOutOfOrder ==
    \E i \in DOMAIN iter_pc : \E k \in DOMAIN iter_pc :
        i < k /\ iter_pc[k].at = "done" /\ iter_pc[i].at = "store"

\* the sequence holds 60 dB and 70 dB, in either order
SixtyAndSeventy(q) == q = <<60000, 70000>> \/ q = <<70000, 60000>>

\* C21 as stated: Lmax is the largest per-point level, Leq never exceeds Lmax,
\* a single-point route has Leq equal to its level, and two points at 60 and
\* 70 dB give Leq of about 69.54 dB.
CE_C21_LeqSixtySeventyIs6954 ==
    Returned(route_summary) =>
        LET r == route_summary.value
        IN  /\ r.lmax = round1(seq_max(spl_values_in))
            /\ r.leq <= r.lmax
            /\ Len(spl_values_in) = 1 => r.lmax - r.leq <= 100
            /\ SixtyAndSeventy(spl_values_in) => r.leq \in 69440..69640

\* C21, amended: Lmax is the largest per-point level (rounded to 0.1 dB), Leq
\* never exceeds Lmax and is never below the arithmetic mean of the levels, a
\* single-point route has Leq equal to its level to within the rounding step of
\* 0.1 dB, and two points at 60 and 70 dB give Leq of about 67.4 dB
\* (10 log10(5.5e6) = 67.40), neither the arithmetic mean 65.0 nor 69.54.
T_C21_LeqIsEnergeticMean ==
    Returned(route_summary) =>
        LET r == route_summary.value
        IN  /\ r.lmax = round1(seq_max(spl_values_in))
            /\ r.leq <= r.lmax
            /\ r.leq + 100 >= seq_sum(spl_values_in) \div Len(spl_values_in)
            /\ Len(spl_values_in) = 1 => r.lmax - r.leq <= 100
            /\ SixtyAndSeventy(spl_values_in) => r.leq \in 67300..67500

W_C21_SixtyAndSeventyReturned ==
    Returned(route_summary) /\ SixtyAndSeventy(spl_values_in)

\* the request meets the constraints of the claim: xmin < xmax, ymin < ymax,
\* both extents at most 2000 m, 5 <= grid_size_m <= 100
ValidGridRequest(body) ==
    LET b == body.bbox
    IN  /\ ~b.xmin.nan /\ ~b.xmax.nan /\ ~b.ymin.nan /\ ~b.ymax.nan
        /\ b.xmin.v < b.xmax.v /\ b.ymin.v < b.ymax.v
        /\ b.xmax.v - b.xmin.v <= 200000 /\ b.ymax.v - b.ymin.v <= 200000
        /\ body.grid_size_m >= 5 /\ body.grid_size_m <= 100

\* C22 as stated: once the request is answered, calculate_grid has been called
\* only if the request is valid; every other request was answered with a
\* validation error and calculate_grid was not called.
CE_C22_OnlyValidRequestsReachCore ==
    grid_response # None =>
        IF ValidGridRequest(grid_request)
        THEN Len(core_calls) = 1 /\ Returned(grid_response)
        ELSE core_calls = <<>> /\ grid_response = Raise("RequestValidationError")


Unsubscribed(subs, ws) == \A d \in DOMAIN subs : ws \notin subs[d]

\* the step called disconnect for ws: afterwards ws is in neither collection
\* and no drone id with an empty set is left; if ws was in neither collection
\* before, the connections and every non-empty subscription set are as before
DisconnectEffect(ws) ==
    /\ ws \notin active_connections'
    /\ Unsubscribed(subscriptions', ws)
    /\ \A d \in DOMAIN subscriptions' : subscriptions'[d] # {}
    /\ (disconnect_calls' = {ws} /\ ws \notin active_connections
            /\ Unsubscribed(subscriptions, ws))
         => /\ active_connections' = active_connections
            /\ DOMAIN subscriptions' = {d \in DOMAIN subscriptions : subscriptions[d] # {}}
            /\ \A d \in DOMAIN subscriptions' : subscriptions'[d] = subscriptions[d]

\* C25: after disconnect(ws) the websocket is in neither active_connections
\* nor any subscription set and no drone id with an empty subscriber set
\* remains; disconnecting a websocket that is not registered changes nothing else.
T_C25_DisconnectRemovesEverywhere ==
    [][\A ws \in disconnect_calls' : DisconnectEffect(ws)]_vars

\* disconnect was called for a websocket that was registered nowhere any more,
\* while another client holds a subscription
W_C25_DisconnectedTwice ==
    \E ws \in disconnect_calls :
        /\ handler[ws].pc = "closed"
        /\ ws \in broadcaster.disconnected
        /\ broadcaster.pc = "get"
        /\ DOMAIN subscriptions # {}

\* the step in which broadcast returns
BroadcastReturns == broadcaster.pc = "send" /\ broadcaster'.pc = "get"

\* how often message is in the sequence
Count(messages, message) == Cardinality({i \in DOMAIN messages : messages[i] = message})

\* at the return of broadcast a send was attempted to every connection of the
\* copy, every connection without a failure has the message, and every failed
\* one is in neither collection
BroadcastOutcome ==
    /\ broadcaster'.attempted = broadcaster'.snapshot
    /\ \A ws \in broadcaster'.snapshot \ broadcaster'.disconnected :
           Count(delivered'[ws], broadcaster'.message) >= 1
    /\ \A ws \in broadcaster'.disconnected :
           ws \notin active_connections' /\ Unsubscribed(subscriptions', ws)

\* a step of broadcast removes none but failed connections
OnlyFailedRemoved ==
    /\ active_connections \ active_connections' \subseteq broadcaster'.disconnected
    /\ \A d \in DOMAIN subscriptions :
           subscriptions[d] \ (IF d \in DOMAIN subscriptions' THEN subscriptions'[d] ELSE {})
               \subseteq broadcaster'.disconnected

\* C26: broadcast attempts to send to every connection registered when it
\* starts, a failing send does not prevent delivery to the rest, every failed
\* connection is removed from active_connections and all subscriptions when
\* broadcast returns, and successful ones stay.
T_C26_BroadcastIsolatesFailures ==
    [][/\ BroadcastReturns => BroadcastOutcome
       /\ broadcaster' # broadcaster => OnlyFailedRemoved]_vars

\* a broadcast has returned with a failed connection removed and a successful
\* one still registered
W_C26_OneFailedOneDelivered ==
    /\ broadcaster.pc = "get"
    /\ broadcaster.disconnected # {}
    /\ \E ws \in broadcaster.snapshot \ broadcaster.disconnected :
          ws \in active_connections /\ Count(delivered[ws], broadcaster.message) >= 1

\* C29 as stated: in every reachable state every websocket in a subscription
\* set is also in active_connections.
CE_C29_SubscribersAreConnected ==
    \A d \in DOMAIN subscriptions : subscriptions[d] \subseteq active_connections

\* nothing is queued or being sent
Quiescent ==
    /\ message_queue = <<>> /\ broadcaster.pc # "send"
    /\ \A ws \in Websockets : handler[ws].pc # "fanout"

\* C30 as stated: once a drone-position message has gone out, every client
\* that was connected when it was received and stayed connected has received
\* it exactly once, subscribers of its droneId included.
CE_C30_DeliveredExactlyOnce ==
    Quiescent =>
        \A message \in DOMAIN audience :
            \A ws \in audience[message] \cap active_connections :
                peer[ws] = "open" => Count(delivered[ws], message) = 1

\* the step is a call with the arguments of key
CalledWith(key) ==
    service_calls' = Append(service_calls, key)

SameCallSameResult ==
    \A i, j \in DOMAIN call_log :
        call_log[i].call = call_log[j].call => call_log[i].result = call_log[j].result

CE_C28_GridLoopTerminates ==
    <>(loop_pc = "done")

=============================================================================
